---- MODULE Spec2Model ----
(***************************************************************************)
(* A model of dshulyak/art: a concurrent adaptive radix tree with          *)
(* optimistic lock coupling.                                               *)
(*                                                                         *)
(* Conventions.                                                            *)
(*  - A Go array or slice is a TLA+ sequence; Go index i is TLA+ index     *)
(*    i+1.  A key is a sequence of bytes (0..255).                         *)
(*  - The heap is a sequence of node records; a pointer is an index into   *)
(*    it and Nil (0) is the nil pointer.  Nothing is ever freed (Go's      *)
(*    collector keeps what is still referenced).                           *)
(*  - An inner node's fan-out object (node4/node16/node48/node256) is      *)
(*    kept inside the inner node's record in the field "node".             *)
(*  - An olock is its uint64 value.  No run of the model comes near 2^64,  *)
(*    so the wrap-around of the counter is not modelled.                   *)
(*  - A Go panic stops the whole program: it sets the variable panicked.   *)
(***************************************************************************)
EXTENDS Integers, Sequences, FiniteSets, TLC

Nil == 0

maxPrefixLen == 8

NoByte == -1

MinOf(S) == CHOOSE x \in S : \A y \in S : x <= y

MaxOf(S) == CHOOSE x \in S : \A y \in S : x >= y

\* Arrays are built as tuples: SubSeq makes the tuple of a function on 1..n.
\* F applied to x, with x worked out once however often F uses it.
With(x, F(_)) == F(x)

Arr(n, v) == SubSeq([i \in 1..n |-> v], 1, n)

\* Go's copy(dst[a:], src[b:]) (memmove semantics), a and b zero-based.
GoCopy(dst, a, src, b) ==
    LET n == IF Len(dst) - a < Len(src) - b THEN Len(dst) - a ELSE Len(src) - b
    IN  SubSeq([i \in 1..Len(dst) |-> IF i > a /\ i <= a + n THEN src[b + (i - a)] ELSE dst[i]], 1, Len(dst))

\* bytes.Compare(a, b): -1, 0 or 1.
RECURSIVE bytesCompareFrom(_, _, _)
bytesCompareFrom(a, b, i) ==
    IF i > Len(a) /\ i > Len(b) THEN 0
    ELSE IF i > Len(a) THEN -1
    ELSE IF i > Len(b) THEN 1
    ELSE IF a[i] < b[i] THEN -1
    ELSE IF a[i] > b[i] THEN 1
    ELSE bytesCompareFrom(a, b, i + 1)

bytesCompare(a, b) == bytesCompareFrom(a, b, 1)

(***************************************************************************)
(* olock (src/olock.go)                                                    *)
(***************************************************************************)
\* A lock that never reads as locked.
isLockedNever(version) == FALSE

isLocked(version) == (version \div 2) % 2 = 1

isObsolete(version) == version % 2 = 1

setLockedBit(version) == version + 2

\* A comparison that finds every version valid.
olockChangedNever(cur, version) == FALSE

\* RUnlock's and Check's comparison: TRUE when the caller must restart.
olockChanged(cur, version) == cur # version

\* An Upgrade that sets the locked bit whatever the value is.
olockUpgradeBlind(cur, version) == [val |-> setLockedBit(cur), restart |-> FALSE]

\* Upgrade's compare-and-swap: the new value and whether the caller restarts.
olockUpgrade(cur, version) ==
    IF cur = version
    THEN [val |-> setLockedBit(version), restart |-> FALSE]
    ELSE [val |-> cur, restart |-> TRUE]

olockUnlock(cur) == cur + 2

\* An UnlockObsolete that adds what Unlock adds.
olockUnlockObsoleteAsUnlock(cur) == cur + 2

olockUnlockObsolete(cur) == cur + 3

(***************************************************************************)
(* comparePrefix (src/node.go)                                             *)
(***************************************************************************)
RECURSIVE comparePrefixLoop(_, _, _, _, _)
comparePrefixLoop(k1, k2, i, j, d) ==
    IF i < Len(k1) /\ j < Len(k2)
    THEN IF k1[i + 1] # k2[j + 1] THEN d
         ELSE IF d + 1 = maxPrefixLen THEN d + 1
         ELSE comparePrefixLoop(k1, k2, i + 1, j + 1, d + 1)
    ELSE d

comparePrefix(k1, k2, off1, off2) == comparePrefixLoop(k1, k2, off1, off2, 0)

(***************************************************************************)
(* The fan-out variants (src/node.go).  A call that panics in Go yields    *)
(* PanicNode.                                                              *)
(***************************************************************************)
PanicNode == [kind |-> "panic"]

EmptyNode4 == [kind |-> "node4", lth |-> 0, keys |-> Arr(4, 0), childs |-> Arr(4, Nil)]

\* node4.index and node16.index: the first position whose key is >= k.
sortedIndex(n, k) ==
    LET hits == {i \in 0..(Len(n.keys) - 1) : k <= n.keys[i + 1]}
    IN  IF hits = {} THEN n.lth ELSE MinOf(hits)

node4Child(n, k) ==
    LET idx == sortedIndex(n, k)
    IN  IF idx = n.lth THEN <<0, Nil>>
        ELSE IF n.keys[idx + 1] # k THEN <<idx, Nil>>
        ELSE <<idx, n.childs[idx + 1]>>

\* index of the byte-match primitive: the first of the 16 entries equal to k.
index16(k, nkey) ==
    LET hits == {i \in 0..15 : nkey[i + 1] = k}
    IN  IF hits = {} THEN <<0, FALSE>> ELSE <<MinOf(hits), TRUE>>

node16Child(n, k) ==
    LET r == index16(k, n.keys)
    IN  IF ~r[2] THEN <<0, Nil>> ELSE <<r[1], n.childs[r[1] + 1]>>

node48Child(n, k) ==
    LET idx == n.keys[k + 1]
    IN  IF idx = 0 THEN <<0, Nil>> ELSE <<k, n.childs[idx]>>

node256Child(n, k) == <<k, n.childs[k + 1]>>

\* node4.next and node16.next; k = NoByte is the nil pointer.
sortedNext(n, k) ==
    IF k = NoByte THEN <<n.keys[1], n.childs[1]>>
    ELSE LET hits == {i \in 1..Len(n.keys) : n.keys[i] > k}
         IN  IF hits = {} THEN <<0, Nil>>
             ELSE <<n.keys[MinOf(hits)], n.childs[MinOf(hits)]>>

node48Next(n, k) ==
    LET hits == {b \in 0..255 : (k = NoByte \/ b > k) /\ n.keys[b + 1] # 0}
    IN  IF hits = {} THEN <<0, Nil>>
        ELSE <<MinOf(hits), n.childs[n.keys[MinOf(hits) + 1]]>>

node256Next(n, k) ==
    LET hits == {b \in 0..255 : (k = NoByte \/ b > k) /\ n.childs[b + 1] # Nil}
    IN  IF hits = {} THEN <<0, Nil>> ELSE <<MinOf(hits), n.childs[MinOf(hits) + 1]>>

\* The prev family yields [b, child, fault]: fault is "panic" where Go indexes out of
\* range and "hang" where the Go loop never ends.
PrevResult(b, child) == [b |-> b, child |-> child, fault |-> ""]

PrevFault(fault) == [b |-> 0, child |-> Nil, fault |-> fault]

node4Prev(n, k) ==
    IF n.lth = 0 THEN PrevResult(0, Nil)
    ELSE IF k = NoByte THEN PrevResult(n.keys[n.lth], n.childs[n.lth])
    ELSE LET hits == {i \in 1..n.lth : n.keys[i] < k}
         IN  IF hits = {} THEN PrevResult(0, Nil)
             ELSE PrevResult(n.keys[MaxOf(hits)], n.childs[MaxOf(hits)])

\* node16.prev: i is a uint8, so i >= 0 always holds and the index i-1 wraps to 255
\* once no smaller key was found.
node16Prev(n, k) ==
    IF k = NoByte
    THEN IF n.lth = 0 \/ n.lth > 16 THEN PrevFault("panic")
         ELSE PrevResult(n.keys[n.lth], n.childs[n.lth])
    ELSE IF n.lth > 16 THEN PrevFault("panic")
    ELSE LET hits == {i \in 1..n.lth : n.keys[i] < k}
         IN  IF hits = {} THEN PrevFault("panic")
             ELSE PrevResult(n.keys[MaxOf(hits)], n.childs[MaxOf(hits)])

\* node48.prev: b is a uint8 that starts at lth-1 and wraps from 0 to 255, so the
\* bytes are visited in the cyclic order lth-1, ..., 0, 255, ..., lth; the child is
\* read at slot idx instead of idx-1.
node48Prev(n, k) ==
    LET start == (n.lth + 255) % 256
        rank(b) == (start - b + 256) % 256
        hits == {b \in 0..255 : (k = NoByte \/ b < k) /\ n.keys[b + 1] # 0}
    IN  IF hits = {} THEN PrevFault("hang")
        ELSE LET b == CHOOSE x \in hits : \A y \in hits : rank(x) <= rank(y)
                 idx == n.keys[b + 1]
             IN  IF idx >= 48 THEN PrevFault("panic") ELSE PrevResult(b, n.childs[idx + 1])

\* node256.prev: idx is a uint16 that starts at lth-1 and wraps from 0 to 65535.
node256Prev(n, k) ==
    LET top == (n.lth + 65535) % 65536
        hits == {b \in 0..255 : b <= top /\ (k = NoByte \/ b < k) /\ n.childs[b + 1] # Nil}
    IN  IF top > 255 THEN PrevFault("panic")
        ELSE IF hits = {} THEN PrevFault("panic")
        ELSE PrevResult(MaxOf(hits), n.childs[MaxOf(hits) + 1])

\* A replace that leaves the node as it is.
sortedReplaceNothing(n, idx, child) == n

\* node4.replace and node16.replace.
sortedReplace(n, idx, child) ==
    IF child = Nil
    THEN IF n.lth = 0 \/ idx >= Len(n.keys) THEN PanicNode
         ELSE LET ks == GoCopy(n.keys, idx, n.keys, idx + 1)
                  cs == GoCopy(n.childs, idx, n.childs, idx + 1)
              IN  [n EXCEPT !.keys = [ks EXCEPT ![n.lth] = 0],
                            !.childs = [cs EXCEPT ![n.lth] = Nil],
                            !.lth = n.lth - 1]
    ELSE IF idx >= Len(n.keys) THEN PanicNode
         ELSE [n EXCEPT !.childs[idx + 1] = child]

node48Replace(n, k, child) ==
    LET idx == n.keys[k + 1]
    IN  IF idx = 0 THEN PanicNode
        ELSE IF child = Nil
             THEN [n EXCEPT !.childs[idx] = Nil, !.keys[k + 1] = 0, !.lth = n.lth - 1]
             ELSE [n EXCEPT !.childs[idx] = child]

node256Replace(n, idx, child) ==
    IF child = Nil
    THEN [n EXCEPT !.childs[idx + 1] = Nil, !.lth = n.lth - 1]
    ELSE [n EXCEPT !.childs[idx + 1] = child]

\* addChild that puts the key after the last one instead of at its place in order.
sortedAddChildAppend(n, k, child) ==
    IF n.lth >= Len(n.keys) THEN PanicNode
    ELSE [n EXCEPT !.keys[n.lth + 1] = k, !.childs[n.lth + 1] = child, !.lth = n.lth + 1]

\* node4.addChild and node16.addChild.
sortedAddChild(n, k, child) ==
    LET idx == sortedIndex(n, k)
    IN  IF idx >= Len(n.keys) THEN PanicNode
        ELSE LET cs == GoCopy(n.childs, idx + 1, n.childs, idx)
                 ks == GoCopy(n.keys, idx + 1, n.keys, idx)
             IN  [n EXCEPT !.keys = [ks EXCEPT ![idx + 1] = k],
                           !.childs = [cs EXCEPT ![idx + 1] = child],
                           !.lth = n.lth + 1]

\* node48.addChild that takes the slot after the last counted one instead of
\* scanning for a free slot.
node48AddChildAppend(n, k, child) ==
    IF n.lth >= 48 THEN PanicNode
    ELSE [n EXCEPT !.keys[k + 1] = n.lth + 1, !.childs[n.lth + 1] = child, !.lth = n.lth + 1]

node48AddChild(n, k, child) ==
    LET free == {i \in 1..48 : n.childs[i] = Nil}
    IN  IF free = {} THEN PanicNode
        ELSE [n EXCEPT !.keys[k + 1] = MinOf(free),
                       !.childs[MinOf(free)] = child,
                       !.lth = n.lth + 1]

node256AddChild(n, k, child) ==
    [n EXCEPT !.childs[k + 1] = child, !.lth = n.lth + 1]

node4Full(n) == n.lth = 4

\* A node16 that reports full one child too late.
node16FullLate(n) == n.lth = 17

node16Full(n) == n.lth = 16

node48Full(n) == n.lth = 48

node256Full(n) == n.lth = 256

node4Min(n) == n.lth <= 2

node16Min(n) == n.lth <= 5

\* A node48 that reports min one child too late.
node48MinLate(n) == n.lth <= 16

node48Min(n) == n.lth <= 17

node256Min(n) == n.lth <= 49

node4Grow(n) ==
    [kind |-> "node16", lth |-> n.lth,
     keys |-> GoCopy(Arr(16, 0), 0, n.keys, 0),
     childs |-> GoCopy(Arr(16, Nil), 0, n.childs, 0)]

node16Grow(n) ==
    [kind |-> "node48", lth |-> n.lth,
     keys |-> SubSeq([b \in 1..256 |->
                 LET at == {i \in 1..16 : n.childs[i] # Nil /\ n.keys[i] = b - 1}
                 IN  IF at = {} THEN 0 ELSE MaxOf(at)], 1, 256),
     childs |-> GoCopy(Arr(48, Nil), 0, n.childs, 0)]

node48Grow(n) ==
    [kind |-> "node256", lth |-> n.lth,
     childs |-> SubSeq([b \in 1..256 |-> IF n.keys[b] = 0 THEN Nil ELSE n.childs[n.keys[b]]], 1, 256)]

node16Shrink(n) ==
    [kind |-> "node4", lth |-> n.lth,
     keys |-> GoCopy(Arr(4, 0), 0, n.keys, 0),
     childs |-> GoCopy(Arr(4, Nil), 0, n.childs, 0)]

\* node48.shrink: the live bytes in ascending order, packed from slot 0.
node48Shrink(n) ==
    LET live == {b \in 0..255 : n.keys[b + 1] # 0 /\ n.childs[n.keys[b + 1]] # Nil}
        rank(b) == Cardinality({c \in live : c < b})
        at(i) == {b \in live : rank(b) = i - 1}
    IN  IF Cardinality(live) > 16 THEN PanicNode
        ELSE [kind |-> "node16", lth |-> n.lth,
              keys |-> SubSeq([i \in 1..16 |-> IF at(i) = {} THEN 0 ELSE MinOf(at(i))], 1, 16),
              childs |-> SubSeq([i \in 1..16 |->
                            IF at(i) = {} THEN Nil ELSE n.childs[n.keys[MinOf(at(i)) + 1]]], 1, 16)]

\* node256.shrink: slot numbers handed out in ascending byte order.
node256Shrink(n) ==
    LET live == {b \in 0..255 : n.childs[b + 1] # Nil}
        rank(b) == Cardinality({c \in live : c <= b})
        at(i) == {b \in live : rank(b) = i}
    IN  IF Cardinality(live) > 48 THEN PanicNode
        ELSE [kind |-> "node48", lth |-> n.lth,
              keys |-> SubSeq([b \in 1..256 |-> IF (b - 1) \in live THEN rank(b - 1) ELSE 0], 1, 256),
              childs |-> SubSeq([i \in 1..48 |->
                            IF at(i) = {} THEN Nil ELSE n.childs[MinOf(at(i)) + 1]], 1, 48)]

\* Dispatch on the inode interface.
inodeChild(n, k) ==
    CASE n.kind = "node4" -> node4Child(n, k)
      [] n.kind = "node16" -> node16Child(n, k)
      [] n.kind = "node48" -> node48Child(n, k)
      [] n.kind = "node256" -> node256Child(n, k)

inodeNext(n, k) ==
    CASE n.kind = "node4" -> sortedNext(n, k)
      [] n.kind = "node16" -> sortedNext(n, k)
      [] n.kind = "node48" -> node48Next(n, k)
      [] n.kind = "node256" -> node256Next(n, k)

inodePrev(n, k) ==
    CASE n.kind = "node4" -> node4Prev(n, k)
      [] n.kind = "node16" -> node16Prev(n, k)
      [] n.kind = "node48" -> node48Prev(n, k)
      [] n.kind = "node256" -> node256Prev(n, k)

inodeReplace(n, idx, child) ==
    CASE n.kind = "node4" -> sortedReplace(n, idx, child)
      [] n.kind = "node16" -> sortedReplace(n, idx, child)
      [] n.kind = "node48" -> node48Replace(n, idx, child)
      [] n.kind = "node256" -> node256Replace(n, idx, child)

inodeAddChild(n, k, child) ==
    CASE n.kind = "node4" -> sortedAddChild(n, k, child)
      [] n.kind = "node16" -> sortedAddChild(n, k, child)
      [] n.kind = "node48" -> node48AddChild(n, k, child)
      [] n.kind = "node256" -> node256AddChild(n, k, child)

inodeFull(n) ==
    CASE n.kind = "node4" -> node4Full(n)
      [] n.kind = "node16" -> node16Full(n)
      [] n.kind = "node48" -> node48Full(n)
      [] n.kind = "node256" -> node256Full(n)

inodeMin(n) ==
    CASE n.kind = "node4" -> node4Min(n)
      [] n.kind = "node16" -> node16Min(n)
      [] n.kind = "node48" -> node48Min(n)
      [] n.kind = "node256" -> node256Min(n)

\* node256.grow returns nil; the nil interface panics at the next call.
inodeGrow(n) ==
    CASE n.kind = "node4" -> node4Grow(n)
      [] n.kind = "node16" -> node16Grow(n)
      [] n.kind = "node48" -> node48Grow(n)
      [] n.kind = "node256" -> PanicNode

\* node4.shrink panics.
inodeShrink(n) ==
    CASE n.kind = "node4" -> PanicNode
      [] n.kind = "node16" -> node16Shrink(n)
      [] n.kind = "node48" -> node48Shrink(n)
      [] n.kind = "node256" -> node256Shrink(n)

(***************************************************************************)
(* Nodes.  A leaf is [type, key, value]; an inner node is [type, lock,     *)
(* prefix, prefixLen, node].                                               *)
(***************************************************************************)
NewLeaf(key, value) == [type |-> "leaf", key |-> key, value |-> value]

NewInner(prefix, prefixLen, node) ==
    [type |-> "inner", lock |-> 0, prefix |-> prefix, prefixLen |-> prefixLen, node |-> node]

isLeaf(heap, id) == heap[id].type = "leaf"

\* leaf.cmp: bytes.Compare(l.key, other) == 0.
leafCmp(heap, l, key) == bytesCompare(heap[l].key, key) = 0

\* leaf.insert.  Yields [heap, node, panic]: the heap after the allocations, the
\* returned node, and whether an index ran out of range.
RECURSIVE leafInsertLoop(_, _, _, _, _, _)
leafInsertLoop(heap, l, other, depth, head, prev) ==
    LET lk == heap[l].key
        ok == heap[other].key
        nn == Len(heap) + 1
        head1 == IF head = Nil THEN nn ELSE head
    IN  IF depth > Len(lk) THEN [heap |-> heap, node |-> Nil, panic |-> TRUE]
        ELSE With(comparePrefix(lk, ok, depth, depth), LAMBDA cmp :
             With(Append(IF prev # Nil
                         THEN [heap EXCEPT ![prev].node = inodeAddChild(@, lk[depth], nn)]
                         ELSE heap,
                         NewInner(GoCopy(Arr(maxPrefixLen, 0), 0,
                                         SubSeq(lk, depth + 1, depth + cmp), 0),
                                  cmp, EmptyNode4)),
                  LAMBDA heap2 :
             IF cmp < maxPrefixLen
             THEN IF depth + cmp >= Len(lk) \/ depth + cmp >= Len(ok)
                  THEN [heap |-> heap2, node |-> Nil, panic |-> TRUE]
                  ELSE [heap |-> [heap2 EXCEPT ![nn].node =
                                    inodeAddChild(inodeAddChild(@, lk[depth + cmp + 1], l),
                                                  ok[depth + cmp + 1], other)],
                        node |-> head1, panic |-> FALSE]
             ELSE leafInsertLoop(heap2, l, other, depth + cmp + 1, head1, nn)))

\* leaf.insert that keeps the leaf it finds when the keys are equal.
leafInsertKeepsOld(heap, l, other, depth) ==
    IF leafCmp(heap, other, heap[l].key)
    THEN [heap |-> heap, node |-> l, panic |-> FALSE]
    ELSE leafInsertLoop(heap, l, other, depth, Nil, Nil)

leafInsert(heap, l, other, depth) ==
    IF leafCmp(heap, other, heap[l].key)
    THEN [heap |-> heap, node |-> other, panic |-> FALSE]
    ELSE leafInsertLoop(heap, l, other, depth, Nil, Nil)

\* inherit without the second case: the node takes the whole of the two prefixes.
inheritNoResplit(heap, n, prefix, prefixLen) ==
    IF isLeaf(heap, n) THEN [heap |-> heap, node |-> n]
    ELSE [heap |-> [heap EXCEPT ![n].prefix = GoCopy(prefix, prefixLen, heap[n].prefix, 0),
                                ![n].prefixLen = heap[n].prefixLen + prefixLen],
          node |-> n]

\* inner.inherit and leaf.inherit.  Yields [heap, node].
inherit(heap, n, prefix, prefixLen) ==
    IF isLeaf(heap, n) THEN [heap |-> heap, node |-> n]
    ELSE LET total == heap[n].prefixLen + prefixLen
             nn == Len(heap) + 1
             kbyte == heap[n].prefix[maxPrefixLen - prefixLen + 1]
         IN  With(GoCopy(prefix, prefixLen, heap[n].prefix, 0), LAMBDA joined :
             IF total <= maxPrefixLen
             THEN [heap |-> [heap EXCEPT ![n].prefix = joined, ![n].prefixLen = total],
                   node |-> n]
             ELSE [heap |-> Append([heap EXCEPT
                                      ![n].prefixLen = total - maxPrefixLen - 1,
                                      ![n].prefix = GoCopy(@, 0, @, maxPrefixLen - prefixLen + 1)],
                                   NewInner(joined, maxPrefixLen,
                                            inodeAddChild(EmptyNode4, kbyte, n))),
                   node |-> nn])

(***************************************************************************)
(* A world W is the shared memory together with the thread that is about   *)
(* to take a step: [heap, root, lock, t, panic].  Every operator below is  *)
(* one step of the code: at most one access to shared memory that another  *)
(* thread can race with, and the local computation that follows it.        *)
(*                                                                         *)
(* A thread t is [op, key, value, leaf, pc, version, rootSnap, frames,     *)
(* cont, retnode, found, val, it].  frames is the call stack of the        *)
(* recursive inner.get / inner.insert / inner.del; a lock is named by the  *)
(* node that holds it, 0 naming the tree's lock.                           *)
(***************************************************************************)
TreeLock == 0

NewFrame(n, depth, parent, pv, rpar, ridx) ==
    [n |-> n, depth |-> depth, parent |-> parent, pv |-> pv, version |-> 0,
     cmp |-> 0, idx |-> 0, next |-> Nil, nextDepth |-> 0,
     isNode4 |-> FALSE, min |-> FALSE, rpar |-> rpar, ridx |-> ridx]

Top(W) == W.t.frames[Len(W.t.frames)]

Pop(frames) == SubSeq(frames, 1, Len(frames) - 1)

SetPc(W, pc) == [W EXCEPT !.t.pc = pc]

SetTop(W, f, pc) == [W EXCEPT !.t.frames[Len(W.t.frames)] = f, !.t.pc = pc]

Push(W, f, pc) == [W EXCEPT !.t.frames = Append(@, f), !.t.pc = pc]

LockGet(W, ref) == IF ref = TreeLock THEN W.lock ELSE W.heap[ref].lock

LockSet(W, ref, v) ==
    IF ref = TreeLock THEN [W EXCEPT !.lock = v] ELSE [W EXCEPT !.heap[ref].lock = v]

GoPanic(W) == [W EXCEPT !.panic = TRUE, !.t.pc = "panic"]

\* n.prefix[:n.prefixLen]
prefixSlice(node) == SubSeq(node.prefix, 1, node.prefixLen)

(***************************************************************************)
(* inner.get and Tree.Get                                                  *)
(***************************************************************************)
\* return nil, false, true
getReturnRestart(W) ==
    LET fs == Pop(W.t.frames)
    IN  [W EXCEPT !.t.frames = fs, !.t.pc = IF fs = <<>> THEN "tg_rlock" ELSE "g_rlock"]

\* return value, found, false: every caller returns it unchanged.
getReturn(W, val, found) ==
    [W EXCEPT !.t.frames = <<>>, !.t.pc = "done", !.t.val = val, !.t.found = found]

\* leaf.get
leafGet(heap, l, key) ==
    IF leafCmp(heap, l, key) THEN <<heap[l].value, TRUE>> ELSE <<Nil, FALSE>>

\* Tree.Get: version, _ = t.lock.RLock()
treeGetRLock(W) == [W EXCEPT !.t.version = W.lock, !.t.pc = "tg_root"]

\* Tree.Get: root := t.root
treeGetRoot(W) == [W EXCEPT !.t.rootSnap = W.root, !.t.pc = "tg_runlock"]

\* Tree.Get: restart = t.lock.RUnlock(version, nil), then the call of root.get
treeGetRUnlock(W) ==
    IF olockChanged(W.lock, W.t.version) THEN SetPc(W, "tg_rlock")
    ELSE IF W.t.rootSnap = Nil THEN getReturn(W, Nil, FALSE)
    ELSE IF isLeaf(W.heap, W.t.rootSnap)
    THEN LET r == leafGet(W.heap, W.t.rootSnap, W.t.key) IN getReturn(W, r[1], r[2])
    ELSE Push(W, NewFrame(W.t.rootSnap, 0, TreeLock, W.t.version, Nil, 0), "g_rlock")

\* inner.get: version, obsolete := n.lock.RLock()
innerGetRLock(W) ==
    LET f == Top(W)
        version == LockGet(W, f.n)
    IN  IF isObsolete(version) THEN getReturnRestart(W)
        ELSE SetTop(W, [f EXCEPT !.version = version], "g_parent")

\* inner.get with parent.RUnlock(parentVersion, &n.lock): a failed validation unlocks
\* the node's own lock, as the writers' calls of RUnlock do.
innerGetParentUnlocksSelf(W) ==
    LET f == Top(W)
    IN  IF olockChanged(LockGet(W, f.parent), f.pv)
        THEN getReturnRestart(LockSet(W, f.n, olockUnlock(LockGet(W, f.n))))
        ELSE SetPc(W, "g_read")

\* inner.get: parent.RUnlock(parentVersion, nil)
innerGetParent(W) ==
    LET f == Top(W)
    IN  IF olockChanged(LockGet(W, f.parent), f.pv) THEN getReturnRestart(W)
        ELSE SetPc(W, "g_read")

\* inner.get: the reads of the node between RLock and RUnlock
innerGetRead(W) ==
    LET f == Top(W)
        n == W.heap[f.n]
        key == W.t.key
        nextDepth == f.depth + n.prefixLen
        miss == [SetPc(W, "g_validate") EXCEPT !.t.val = Nil, !.t.found = FALSE]
    IN  IF n.prefixLen > maxPrefixLen \/ n.prefixLen < 0 THEN GoPanic(W)
        ELSE IF comparePrefix(prefixSlice(n), key, 0, f.depth) # n.prefixLen THEN miss
        ELSE IF nextDepth >= Len(key) THEN GoPanic(W)
        ELSE With(inodeChild(n.node, key[nextDepth + 1])[2], LAMBDA next :
             IF next = Nil THEN miss
             ELSE IF isLeaf(W.heap, next)
             THEN With(leafGet(W.heap, next, key), LAMBDA r :
                       [SetPc(W, "g_validate") EXCEPT !.t.val = r[1], !.t.found = r[2]])
             ELSE Push(W, NewFrame(next, nextDepth + 1, f.n, f.version, Nil, 0), "g_rlock"))

\* inner.get: n.lock.RUnlock(version, nil) before a return
innerGetValidate(W) ==
    LET f == Top(W)
    IN  IF olockChanged(LockGet(W, f.n), f.version) THEN SetPc(W, "g_rlock")
        ELSE getReturn(W, W.t.val, W.t.found)

(***************************************************************************)
(* inner.insert and Tree.Insert                                            *)
(***************************************************************************)
\* A return of inner.insert.  With restart the caller's loop continues; without,
\* every caller returns its own node and false, down to Tree.Insert.
insertReturn(W, node, restart) ==
    LET fs == Pop(W.t.frames)
    IN  IF restart /\ fs # <<>>
        THEN [W EXCEPT !.t.frames = fs, !.t.pc = "i_rlock"]
        ELSE LET ret == IF restart THEN node ELSE W.t.frames[1].n
             IN  [W EXCEPT !.t.frames = <<>>, !.t.retnode = ret,
                           !.t.pc = IF W.t.cont = "leaf" THEN "ti_leaf_setroot"
                                    ELSE IF restart THEN "ti_rlock"
                                    ELSE "ti_setroot"]

\* Tree.Insert: version, restart = t.lock.RLock()
treeInsertRLock(W) == [W EXCEPT !.t.version = W.lock, !.t.pc = "ti_chknil"]

\* Tree.Insert: if t.root == nil
treeInsertChkNil(W) ==
    IF W.root = Nil THEN SetPc(W, "ti_nil_upgrade") ELSE SetPc(W, "ti_chkleaf")

\* Tree.Insert: if t.root.isLeaf()
treeInsertChkLeaf(W) ==
    IF W.root = Nil THEN GoPanic(W)
    ELSE IF isLeaf(W.heap, W.root) THEN SetPc(W, "ti_leaf_upgrade")
    ELSE SetPc(W, "ti_runlock")

\* Tree.Insert: restart = t.lock.Upgrade(version, nil), in either branch
treeInsertUpgrade(W, okpc) ==
    LET u == olockUpgrade(W.lock, W.t.version)
    IN  IF u.restart THEN SetPc(W, "ti_rlock")
        ELSE [W EXCEPT !.lock = u.val, !.t.pc = okpc]

\* Tree.Insert: t.root = l
treeInsertNilSet(W) == [W EXCEPT !.root = W.t.leaf, !.t.pc = "ti_unlock"]

\* Tree.Insert: the call t.root.insert(l, 0), of either branch
treeInsertCall(W, cont) ==
    IF W.root = Nil THEN GoPanic(W)
    ELSE IF isLeaf(W.heap, W.root)
    THEN With(leafInsert(W.heap, W.root, W.t.leaf, 0), LAMBDA r :
         IF r.panic THEN GoPanic(W)
         ELSE [W EXCEPT !.heap = r.heap, !.t.retnode = r.node,
                        !.t.pc = IF cont = "leaf" THEN "ti_leaf_setroot" ELSE "ti_setroot"])
    ELSE [Push(W, NewFrame(W.root, 0, TreeLock, W.t.version, Nil, 0), "i_rlock")
            EXCEPT !.t.cont = cont]

\* Tree.Insert: t.root, _ = ... (under the tree's lock)
treeInsertLeafSetRoot(W) == [W EXCEPT !.root = W.t.retnode, !.t.pc = "ti_unlock"]

\* Tree.Insert: t.lock.Unlock(); return
treeInsertUnlock(W) == [W EXCEPT !.lock = olockUnlock(W.lock), !.t.pc = "done"]

\* Tree.Insert: restart = t.lock.RUnlock(version, nil)
treeInsertRUnlock(W) ==
    IF olockChanged(W.lock, W.t.version) THEN SetPc(W, "ti_rlock") ELSE SetPc(W, "ti_call")

\* Tree.Insert: t.root = root; return
treeInsertSetRoot(W) == [W EXCEPT !.root = W.t.retnode, !.t.pc = "done"]

\* inner.insert: version, obsolete := n.lock.RLock()
innerInsertRLock(W) ==
    LET f == Top(W)
        version == LockGet(W, f.n)
    IN  IF isObsolete(version) THEN insertReturn(W, f.n, TRUE)
        ELSE SetTop(W, [f EXCEPT !.version = version], "i_read")

\* inner.insert: the reads of the node that choose the branch
innerInsertRead(W) ==
    LET f == Top(W)
        n == W.heap[f.n]
        key == W.t.key
        nextDepth == f.depth + n.prefixLen
    IN  IF n.prefixLen > maxPrefixLen \/ n.prefixLen < 0 THEN GoPanic(W)
        ELSE With(comparePrefix(prefixSlice(n), key, 0, f.depth), LAMBDA cmp :
             IF cmp # n.prefixLen
             THEN SetTop(W, [f EXCEPT !.cmp = cmp], "i_split_upparent")
             ELSE IF nextDepth >= Len(key) THEN GoPanic(W)
             ELSE With(inodeChild(n.node, key[nextDepth + 1]), LAMBDA c :
                  SetTop(W, [f EXCEPT !.cmp = cmp, !.idx = c[1], !.next = c[2],
                                      !.nextDepth = nextDepth],
                         IF c[2] = Nil THEN "i_add_upgrade" ELSE "i_runlock_parent")))

\* inner.insert: parent.Upgrade(parentVersion, nil) of the prefix split
innerInsertSplitUpParent(W) ==
    LET f == Top(W)
        u == olockUpgrade(LockGet(W, f.parent), f.pv)
    IN  IF u.restart THEN insertReturn(W, Nil, TRUE)
        ELSE SetPc(LockSet(W, f.parent, u.val), "i_split_upself")

\* inner.insert: n.lock.Upgrade(version, parent) of the prefix split
innerInsertSplitUpSelf(W) ==
    LET f == Top(W)
        u == olockUpgrade(LockGet(W, f.n), f.version)
    IN  IF u.restart THEN SetPc(W, "i_split_fail_unlock")
        ELSE SetPc(LockSet(W, f.n, u.val), "i_split_mutate")

\* The failed second Upgrade of the prefix split that leaves the parent locked.
innerInsertSplitFailKeepsLock(W) == insertReturn(W, Nil, TRUE)

\* olock.Upgrade: locked.Unlock() after the failed swap, then return nil, true
innerInsertSplitFailUnlock(W) ==
    LET f == Top(W)
    IN  insertReturn(LockSet(W, f.parent, olockUnlock(LockGet(W, f.parent))), Nil, TRUE)

\* inner.insert: the prefix split itself
innerInsertSplitMutate(W) ==
    LET f == Top(W)
        n == W.heap[f.n]
        key == W.t.key
        cmp == f.cmp
        child == Len(W.heap) + 1
    IN  IF f.depth + cmp >= Len(key) \/ cmp >= maxPrefixLen THEN GoPanic(W)
        ELSE [W EXCEPT !.heap = Append(
                          [W.heap EXCEPT
                             ![f.n].node = inodeAddChild(
                                 inodeAddChild(EmptyNode4, key[f.depth + cmp + 1], W.t.leaf),
                                 n.prefix[cmp + 1], child),
                             ![f.n].prefixLen = cmp],
                          NewInner(GoCopy(Arr(maxPrefixLen, 0), 0, n.prefix, cmp + 1),
                                   n.prefixLen - cmp - 1, n.node)),
                       !.t.pc = "i_split_unlock_self"]

\* inner.insert: n.lock.Unlock() of the prefix split
innerInsertSplitUnlockSelf(W) ==
    LET f == Top(W)
    IN  SetPc(LockSet(W, f.n, olockUnlock(LockGet(W, f.n))), "i_split_unlock_parent")

\* inner.insert: parent.Unlock(); return n, false
innerInsertSplitUnlockParent(W) ==
    LET f == Top(W)
    IN  insertReturn(LockSet(W, f.parent, olockUnlock(LockGet(W, f.parent))), f.n, FALSE)

\* inner.insert: n.lock.Upgrade(version, nil); okpc is where the branch goes on
innerInsertUpgrade(W, okpc) ==
    LET f == Top(W)
        u == olockUpgrade(LockGet(W, f.n), f.version)
    IN  IF u.restart THEN SetPc(W, "i_rlock")
        ELSE SetPc(LockSet(W, f.n, u.val), okpc)

\* inner.insert: parent.RUnlock(parentVersion, &n.lock) before adding a child
innerInsertAddRUnlock(W) ==
    LET f == Top(W)
    IN  IF olockChanged(LockGet(W, f.parent), f.pv) THEN SetPc(W, "i_add_fail_unlock")
        ELSE SetPc(W, "i_add_mutate")

\* A failed parent.RUnlock(parentVersion, nil) before adding a child: the node's own
\* lock stays locked when the attempt returns n, true.
innerInsertAddFailKeepsLock(W) == insertReturn(W, Top(W).n, TRUE)

\* olock.RUnlock: locked.Unlock() after the failed comparison, then return n, true
innerInsertAddFailUnlock(W) ==
    LET f == Top(W)
    IN  insertReturn(LockSet(W, f.n, olockUnlock(LockGet(W, f.n))), f.n, TRUE)

\* inner.insert: grow when full, then addChild
innerInsertAddMutate(W) ==
    LET f == Top(W)
        n == W.heap[f.n]
    IN  With(IF inodeFull(n.node) THEN inodeGrow(n.node) ELSE n.node, LAMBDA grown :
        With(IF grown.kind = "panic" THEN grown
             ELSE inodeAddChild(grown, W.t.key[f.nextDepth + 1], W.t.leaf), LAMBDA added :
        IF added.kind = "panic" THEN GoPanic(W)
        ELSE [W EXCEPT !.heap[f.n].node = added, !.t.pc = "i_unlock"]))

\* inner.insert: n.lock.Unlock(); return n, false
innerInsertUnlock(W) ==
    LET f == Top(W)
    IN  insertReturn(LockSet(W, f.n, olockUnlock(LockGet(W, f.n))), f.n, FALSE)

\* inner.insert: parent.RUnlock(parentVersion, nil) when the child exists
innerInsertRUnlockParent(W) ==
    LET f == Top(W)
    IN  IF olockChanged(LockGet(W, f.parent), f.pv) THEN insertReturn(W, f.n, TRUE)
        ELSE IF isLeaf(W.heap, f.next) THEN SetPc(W, "i_leaf_upgrade")
        ELSE Push(W, NewFrame(f.next, f.nextDepth + 1, f.n, f.version, Nil, 0), "i_rlock")

\* inner.insert: replacement, _ := next.insert(...); n.node.replace(idx, replacement)
innerInsertLeafMutate(W) ==
    LET f == Top(W)
    IN  With(leafInsert(W.heap, f.next, W.t.leaf, f.nextDepth + 1), LAMBDA r :
        With(IF r.panic THEN PanicNode ELSE inodeReplace(r.heap[f.n].node, f.idx, r.node),
             LAMBDA repl :
        IF repl.kind = "panic" THEN GoPanic(W)
        ELSE [W EXCEPT !.heap = [r.heap EXCEPT ![f.n].node = repl], !.t.pc = "i_unlock"]))

(***************************************************************************)
(* inner.del and Tree.Delete                                               *)
(***************************************************************************)
\* A return of inner.del: with restart the caller's loop continues.
deleteReturn(W, restart) ==
    LET fs == Pop(W.t.frames)
    IN  IF restart
        THEN [W EXCEPT !.t.frames = fs, !.t.pc = IF fs = <<>> THEN "td_rlock" ELSE "d_rlock"]
        ELSE [W EXCEPT !.t.frames = <<>>, !.t.pc = "done"]

\* The replace closures: func(rn node) { t.root = rn } of Tree.Delete and
\* func(rn node) { n.node.replace(idx, rn) } of inner.del.
replaceFn(W, rpar, ridx, rn) ==
    IF rpar = Nil THEN [W EXCEPT !.root = rn]
    ELSE With(inodeReplace(W.heap[rpar].node, ridx, rn), LAMBDA r :
              IF r.kind = "panic" THEN GoPanic(W) ELSE [W EXCEPT !.heap[rpar].node = r])

\* Tree.Delete: version, _ = t.lock.RLock()
treeDeleteRLock(W) == [W EXCEPT !.t.version = W.lock, !.t.pc = "td_chkleaf"]

\* Tree.Delete that removes a root leaf without comparing its key.
treeDeleteAnyLeaf(W) ==
    IF W.root # Nil /\ isLeaf(W.heap, W.root) THEN SetPc(W, "td_upgrade") ELSE SetPc(W, "td_call")

\* Tree.Delete: l, isLeaf := t.root.(leaf) and the choice of the branch
treeDeleteChkLeaf(W) ==
    IF W.root # Nil /\ isLeaf(W.heap, W.root)
    THEN IF leafCmp(W.heap, W.root, W.t.key) THEN SetPc(W, "td_upgrade")
         ELSE SetPc(W, "td_runlock")
    ELSE SetPc(W, "td_call")

\* Tree.Delete: restart = t.lock.Upgrade(version, nil)
treeDeleteUpgrade(W) ==
    LET u == olockUpgrade(W.lock, W.t.version)
    IN  IF u.restart THEN SetPc(W, "td_rlock")
        ELSE [W EXCEPT !.lock = u.val, !.t.pc = "td_setnil"]

\* Tree.Delete: t.root = nil
treeDeleteSetNil(W) == [W EXCEPT !.root = Nil, !.t.pc = "td_unlock"]

\* Tree.Delete: t.lock.Unlock(); return
treeDeleteUnlock(W) == [W EXCEPT !.lock = olockUnlock(W.lock), !.t.pc = "done"]

\* Tree.Delete: restart = t.lock.RUnlock(version, nil) when the root is another leaf
treeDeleteRUnlock(W) ==
    IF olockChanged(W.lock, W.t.version) THEN SetPc(W, "td_rlock") ELSE SetPc(W, "done")

\* Tree.Delete: the call t.root.del(key, 0, &t.lock, version, ...).  A nil root is a
\* nil interface, and leaf.del panics.
treeDeleteCall(W) ==
    IF W.root = Nil \/ isLeaf(W.heap, W.root) THEN GoPanic(W)
    ELSE Push(W, NewFrame(W.root, 0, TreeLock, W.t.version, Nil, 0), "d_rlock")

\* inner.del: version, obsolete := n.lock.RLock()
innerDelRLock(W) ==
    LET f == Top(W)
        version == LockGet(W, f.n)
    IN  IF isObsolete(version) THEN deleteReturn(W, TRUE)
        ELSE SetTop(W, [f EXCEPT !.version = version], "d_read")

\* inner.del: the reads of the node that choose the branch
innerDelRead(W) ==
    LET f == Top(W)
        n == W.heap[f.n]
        key == W.t.key
        nextDepth == f.depth + n.prefixLen
    IN  IF n.prefixLen > maxPrefixLen \/ n.prefixLen < 0 THEN GoPanic(W)
        ELSE IF comparePrefix(prefixSlice(n), key, 0, f.depth) # n.prefixLen
        THEN SetPc(W, "d_nf_validate")
        ELSE IF nextDepth >= Len(key) THEN GoPanic(W)
        ELSE With(inodeChild(n.node, key[nextDepth + 1]), LAMBDA c :
             With([f EXCEPT !.idx = c[1], !.next = c[2], !.nextDepth = nextDepth,
                            !.isNode4 = (n.node.kind = "node4"),
                            !.min = inodeMin(n.node)], LAMBDA g :
             IF c[2] = Nil THEN SetPc(W, "d_nf_validate")
             ELSE IF isLeaf(W.heap, c[2])
             THEN IF leafCmp(W.heap, c[2], key)
                  THEN IF g.isNode4 /\ g.min /\ n.prefixLen < maxPrefixLen
                       THEN SetTop(W, g, "d_col_upparent")
                       ELSE SetTop(W, g, "d_loc_upgrade")
                  ELSE SetPc(W, "d_nf_validate")
             ELSE SetTop(W, g, "d_runlock_parent")))

\* inner.del: n.lock.RUnlock(version, nil) when the key is not found
innerDelNotFoundValidate(W) ==
    LET f == Top(W)
    IN  IF olockChanged(LockGet(W, f.n), f.version) THEN SetPc(W, "d_rlock")
        ELSE SetPc(W, "d_nf_parent")

\* inner.del: return parent.RUnlock(parentVersion, nil)
innerDelNotFoundParent(W) ==
    LET f == Top(W) IN deleteReturn(W, olockChanged(LockGet(W, f.parent), f.pv))

\* inner.del: parent.Upgrade(parentVersion, nil) of the collapse
innerDelCollapseUpParent(W) ==
    LET f == Top(W)
        u == olockUpgrade(LockGet(W, f.parent), f.pv)
    IN  IF u.restart THEN deleteReturn(W, TRUE)
        ELSE SetPc(LockSet(W, f.parent, u.val), "d_col_upself")

\* inner.del: n.lock.Upgrade(version, parent) of the collapse
innerDelCollapseUpSelf(W) ==
    LET f == Top(W)
        u == olockUpgrade(LockGet(W, f.n), f.version)
    IN  IF u.restart THEN SetPc(W, "d_col_fail_unlock")
        ELSE SetPc(LockSet(W, f.n, u.val), "d_col_mutate")

\* olock.Upgrade: locked.Unlock() after the failed swap, then return true
innerDelCollapseFailUnlock(W) ==
    LET f == Top(W)
    IN  deleteReturn(LockSet(W, f.parent, olockUnlock(LockGet(W, f.parent))), TRUE)

\* inner.del: the collapse itself: the child is removed, the branching byte of the
\* leftmost remaining child is appended to the prefix, the child inherits the
\* prefix and replaces the node in its parent.
innerDelCollapseMutate(W) ==
    LET f == Top(W)
        n == W.heap[f.n]
    IN  With(inodeReplace(n.node, f.idx, Nil), LAMBDA removed :
        IF removed.kind = "panic" \/ n.prefixLen >= maxPrefixLen THEN GoPanic(W)
        ELSE With(inodeNext(removed, NoByte), LAMBDA l :
             With([W EXCEPT !.heap[f.n].node = removed,
                            !.heap[f.n].prefix[n.prefixLen + 1] = l[1],
                            !.heap[f.n].prefixLen = n.prefixLen + 1], LAMBDA W1 :
             IF l[2] = Nil THEN GoPanic(W1)
             ELSE With(inherit(W1.heap, l[2], W1.heap[f.n].prefix, n.prefixLen + 1), LAMBDA h :
                  SetPc(replaceFn([W1 EXCEPT !.heap = h.heap], f.rpar, f.ridx, h.node),
                        "d_col_unlock_self")))))

\* inner.del: n.lock.Unlock() of the collapse
innerDelCollapseUnlockSelf(W) ==
    LET f == Top(W)
    IN  SetPc(LockSet(W, f.n, olockUnlock(LockGet(W, f.n))), "d_col_unlock_parent")

\* inner.del: parent.Unlock(); return false
innerDelCollapseUnlockParent(W) ==
    LET f == Top(W)
    IN  deleteReturn(LockSet(W, f.parent, olockUnlock(LockGet(W, f.parent))), FALSE)

\* inner.del: n.lock.Upgrade(version, nil) of the local removal
innerDelLocalUpgrade(W) ==
    LET f == Top(W)
        u == olockUpgrade(LockGet(W, f.n), f.version)
    IN  IF u.restart THEN SetPc(W, "d_rlock")
        ELSE SetPc(LockSet(W, f.n, u.val), "d_loc_runlock")

\* inner.del: parent.RUnlock(parentVersion, &n.lock)
innerDelLocalRUnlock(W) ==
    LET f == Top(W)
    IN  IF olockChanged(LockGet(W, f.parent), f.pv) THEN SetPc(W, "d_loc_fail_unlock")
        ELSE SetPc(W, "d_loc_mutate")

\* olock.RUnlock: locked.Unlock() after the failed comparison, then return true
innerDelLocalFailUnlock(W) ==
    LET f == Top(W)
    IN  deleteReturn(LockSet(W, f.n, olockUnlock(LockGet(W, f.n))), TRUE)

\* inner.del: n.node.replace(idx, nil), and shrink when min and not a node4
innerDelLocalMutate(W) ==
    LET f == Top(W)
    IN  With(inodeReplace(W.heap[f.n].node, f.idx, Nil), LAMBDA removed :
        With(IF removed.kind # "panic" /\ f.min /\ ~f.isNode4
             THEN inodeShrink(removed) ELSE removed, LAMBDA shrunk :
        IF shrunk.kind = "panic" THEN GoPanic(W)
        ELSE [W EXCEPT !.heap[f.n].node = shrunk, !.t.pc = "d_unlock"]))

\* inner.del: n.lock.Unlock(); return false
innerDelUnlock(W) ==
    LET f == Top(W)
    IN  deleteReturn(LockSet(W, f.n, olockUnlock(LockGet(W, f.n))), FALSE)

\* inner.del: parent.RUnlock(parentVersion, nil), then the call of next.del
innerDelRUnlockParent(W) ==
    LET f == Top(W)
    IN  IF olockChanged(LockGet(W, f.parent), f.pv) THEN deleteReturn(W, TRUE)
        ELSE Push(W, NewFrame(f.next, f.nextDepth + 1, f.n, f.version, f.n, f.idx), "d_rlock")

(***************************************************************************)
(* The iterator (src/tree_test.go, the iterator with cursor and terminate).*)
(* An iterator is [stack, closed, cursor, terminate, reverse, key, value]; *)
(* the linked stack of checkpoints is a sequence whose last element is the *)
(* top, and a nil byte slice is the empty sequence.                        *)
(***************************************************************************)
NewCheckpoint(node, parentLock, parentVersion) ==
    [node |-> node, parentLock |-> parentLock, parentVersion |-> parentVersion,
     pointer |-> NoByte]

\* Tree.Iterator(start, end): the iterator as its first Next finds it.
NewIterator(start, end) ==
    [stack |-> <<>>, closed |-> FALSE, cursor |-> start, terminate |-> end,
     reverse |-> FALSE, key |-> <<>>, value |-> Nil]

\* iterator.Reverse
iteratorReverse(it) ==
    [it EXCEPT !.cursor = it.terminate, !.terminate = it.cursor, !.reverse = TRUE]

\* inRange that does not compare the key with the cursor.
inRangeIgnoresCursor(it, key) ==
    Len(it.terminate) = 0
    \/ (IF it.reverse THEN bytesCompare(key, it.terminate) >= 0
        ELSE bytesCompare(key, it.terminate) <= 0)

\* iterator.inRange
inRange(it, key) ==
    IF ~it.reverse
    THEN bytesCompare(key, it.cursor) > 0
         /\ (Len(it.terminate) = 0 \/ bytesCompare(key, it.terminate) <= 0)
    ELSE (bytesCompare(key, it.cursor) < 0 \/ Len(it.cursor) = 0)
         /\ (Len(it.terminate) = 0 \/ bytesCompare(key, it.terminate) >= 0)

\* iterator.next
iteratorNext(it, inode, pointer) ==
    IF ~it.reverse
    THEN With(inodeNext(inode, pointer), LAMBDA r : PrevResult(r[1], r[2]))
    ELSE inodePrev(inode, pointer)

\* A return of Next.
nextReturn(W, more) == [W EXCEPT !.t.pc = "done", !.t.found = more]

\* iterator.iterate: the loop test, i.closed = true and return false after it.
iterateLoop(W) ==
    IF W.t.it.stack = <<>>
    THEN nextReturn([W EXCEPT !.t.it.closed = TRUE], FALSE)
    ELSE SetPc(W, "n_adv_rlock")

\* iterator.Next: the closed test and the choice between init and iterate
iterNextStart(W) ==
    IF W.t.it.closed THEN nextReturn(W, FALSE)
    ELSE IF W.t.it.stack = <<>> THEN SetPc(W, "n_init_rlock")
    ELSE SetPc(W, "n_adv_rlock")

\* iterator.init: version, _ := i.tree.lock.RLock()
iterInitRLock(W) == [W EXCEPT !.t.version = W.lock, !.t.pc = "n_init_root"]

\* iterator.init: root := i.tree.root; an inner root becomes the first checkpoint
iterInitRoot(W) ==
    IF W.root # Nil /\ ~isLeaf(W.heap, W.root)
    THEN [W EXCEPT !.t.it.stack = <<NewCheckpoint(W.root, TreeLock, W.t.version)>>,
                   !.t.pc = "n_adv_rlock"]
    ELSE [W EXCEPT !.t.rootSnap = W.root, !.t.pc = "n_init_runlock"]

\* iterator.init: i.tree.lock.RUnlock(version, nil) for a nil root and a leaf root
iterInitRUnlock(W) ==
    IF olockChanged(W.lock, W.t.version) THEN SetPc(W, "n_init_rlock")
    ELSE LET C == [W EXCEPT !.t.it.closed = TRUE]
             l == W.t.rootSnap
         IN  IF l = Nil THEN nextReturn(C, FALSE)
             ELSE IF inRange(W.t.it, W.heap[l].key)
             THEN nextReturn([C EXCEPT !.t.it.key = W.heap[l].key,
                                       !.t.it.value = W.heap[l].value], TRUE)
             ELSE nextReturn(C, FALSE)

\* iterator.iterate: tryAdvance returned restart: unwind one checkpoint, init again
\* below the root.
iterRestart(W) ==
    LET st == Pop(W.t.it.stack)
    IN  [W EXCEPT !.t.it.stack = st,
                  !.t.pc = IF st = <<>> THEN "n_init_rlock" ELSE "n_adv_rlock"]

\* iterator.tryAdvance: version, obsolete := tail.node.lock.RLock()
iterAdvanceRLock(W) ==
    LET tail == W.t.it.stack[Len(W.t.it.stack)]
        version == LockGet(W, tail.node)
    IN  IF isObsolete(version) THEN iterRestart(W)
        ELSE [W EXCEPT !.t.version = version, !.t.pc = "n_adv_check"]

\* iterator.tryAdvance: tail.parentLock.Check(tail.parentVersion)
iterAdvanceCheck(W) ==
    LET tail == W.t.it.stack[Len(W.t.it.stack)]
    IN  IF olockChanged(LockGet(W, tail.parentLock), tail.parentVersion) THEN iterRestart(W)
        ELSE SetPc(W, "n_adv_read")

\* iterator.tryAdvance: the step to the next child of the checkpoint's node
iterAdvanceRead(W) ==
    LET top == Len(W.t.it.stack)
        tail == W.t.it.stack[top]
    IN  With(iteratorNext(W.t.it, W.heap[tail.node].node, tail.pointer), LAMBDA r :
        With([W EXCEPT !.t.it.stack[top].pointer = r.b], LAMBDA A :
        IF r.fault = "panic" THEN GoPanic(W)
        ELSE IF r.fault = "hang" THEN SetPc(W, "hang")
        ELSE IF r.child = Nil THEN SetPc(W, "n_adv_validate")
        ELSE IF isLeaf(W.heap, r.child)
        THEN IF inRange(W.t.it, W.heap[r.child].key)
             THEN nextReturn([A EXCEPT !.t.it.key = W.heap[r.child].key,
                                       !.t.it.value = W.heap[r.child].value,
                                       !.t.it.cursor = W.heap[r.child].key], TRUE)
             ELSE SetPc(A, "n_adv_rlock")
        ELSE [A EXCEPT !.t.it.stack = Append(@, NewCheckpoint(r.child, tail.node, W.t.version)),
                       !.t.pc = "n_adv_rlock"]))

\* iterator.tryAdvance: tail.node.lock.RUnlock(version, nil) of an exhausted node,
\* then i.stack = tail.prev
iterAdvanceValidate(W) ==
    LET tail == W.t.it.stack[Len(W.t.it.stack)]
    IN  IF olockChanged(LockGet(W, tail.node), W.t.version) THEN SetPc(W, "n_adv_rlock")
        ELSE iterateLoop([W EXCEPT !.t.it.stack = Pop(@)])

(***************************************************************************)
(* Threads and the step relation.                                          *)
(***************************************************************************)
NewThread ==
    [op |-> "idle", key |-> <<>>, value |-> Nil, leaf |-> Nil, pc |-> "done",
     version |-> 0, rootSnap |-> Nil, frames |-> <<>>, cont |-> "", retnode |-> Nil,
     found |-> FALSE, val |-> Nil, it |-> NewIterator(<<>>, <<>>)]

\* The call of Tree.Get(key)
BeginGet(W, key) ==
    [W EXCEPT !.t.op = "get", !.t.key = key, !.t.pc = "tg_rlock", !.t.frames = <<>>,
              !.t.found = FALSE, !.t.val = Nil]

\* The call of Tree.Insert(key, value), with l := leaf{key: key, value: value}
BeginInsert(W, key, value) ==
    [W EXCEPT !.heap = Append(@, NewLeaf(key, value)),
              !.t.op = "insert", !.t.key = key, !.t.value = value,
              !.t.leaf = Len(W.heap) + 1, !.t.pc = "ti_rlock", !.t.frames = <<>>]

\* The call of Tree.Delete(key)
BeginDelete(W, key) ==
    [W EXCEPT !.t.op = "delete", !.t.key = key, !.t.pc = "td_rlock", !.t.frames = <<>>]

\* The call of iterator.Next()
BeginNext(W) == [W EXCEPT !.t.op = "next", !.t.pc = "n_start", !.t.found = FALSE]

Finished(W) == W.t.pc \in {"done", "panic", "hang"}

\* The lock a thread at an RLock spins on (olock.waitUnlocked), Nil elsewhere.
SpinsOn(W) ==
    CASE W.t.pc \in {"tg_rlock", "ti_rlock", "td_rlock", "n_init_rlock"} -> <<TreeLock>>
      [] W.t.pc \in {"g_rlock", "i_rlock", "d_rlock"} -> <<Top(W).n>>
      [] W.t.pc = "n_adv_rlock" -> <<W.t.it.stack[Len(W.t.it.stack)].node>>
      [] OTHER -> <<>>

\* A thread can take its next step unless it has returned or spins on a locked lock.
CanStep(W) ==
    /\ ~Finished(W)
    /\ IF SpinsOn(W) = <<>> THEN TRUE ELSE ~isLocked(LockGet(W, SpinsOn(W)[1]))

StepGet(W) ==
    CASE W.t.pc = "tg_rlock" -> treeGetRLock(W)
      [] W.t.pc = "tg_root" -> treeGetRoot(W)
      [] W.t.pc = "tg_runlock" -> treeGetRUnlock(W)
      [] W.t.pc = "g_rlock" -> innerGetRLock(W)
      [] W.t.pc = "g_parent" -> innerGetParent(W)
      [] W.t.pc = "g_read" -> innerGetRead(W)
      [] W.t.pc = "g_validate" -> innerGetValidate(W)

StepInsert(W) ==
    CASE W.t.pc = "ti_rlock" -> treeInsertRLock(W)
      [] W.t.pc = "ti_chknil" -> treeInsertChkNil(W)
      [] W.t.pc = "ti_chkleaf" -> treeInsertChkLeaf(W)
      [] W.t.pc = "ti_nil_upgrade" -> treeInsertUpgrade(W, "ti_nil_set")
      [] W.t.pc = "ti_nil_set" -> treeInsertNilSet(W)
      [] W.t.pc = "ti_leaf_upgrade" -> treeInsertUpgrade(W, "ti_leaf_call")
      [] W.t.pc = "ti_leaf_call" -> treeInsertCall(W, "leaf")
      [] W.t.pc = "ti_leaf_setroot" -> treeInsertLeafSetRoot(W)
      [] W.t.pc = "ti_unlock" -> treeInsertUnlock(W)
      [] W.t.pc = "ti_runlock" -> treeInsertRUnlock(W)
      [] W.t.pc = "ti_call" -> treeInsertCall(W, "inner")
      [] W.t.pc = "ti_setroot" -> treeInsertSetRoot(W)
      [] W.t.pc = "i_rlock" -> innerInsertRLock(W)
      [] W.t.pc = "i_read" -> innerInsertRead(W)
      [] W.t.pc = "i_split_upparent" -> innerInsertSplitUpParent(W)
      [] W.t.pc = "i_split_upself" -> innerInsertSplitUpSelf(W)
      [] W.t.pc = "i_split_fail_unlock" -> innerInsertSplitFailUnlock(W)
      [] W.t.pc = "i_split_mutate" -> innerInsertSplitMutate(W)
      [] W.t.pc = "i_split_unlock_self" -> innerInsertSplitUnlockSelf(W)
      [] W.t.pc = "i_split_unlock_parent" -> innerInsertSplitUnlockParent(W)
      [] W.t.pc = "i_add_upgrade" -> innerInsertUpgrade(W, "i_add_runlock")
      [] W.t.pc = "i_add_runlock" -> innerInsertAddRUnlock(W)
      [] W.t.pc = "i_add_fail_unlock" -> innerInsertAddFailUnlock(W)
      [] W.t.pc = "i_add_mutate" -> innerInsertAddMutate(W)
      [] W.t.pc = "i_unlock" -> innerInsertUnlock(W)
      [] W.t.pc = "i_runlock_parent" -> innerInsertRUnlockParent(W)
      [] W.t.pc = "i_leaf_upgrade" -> innerInsertUpgrade(W, "i_leaf_mutate")
      [] W.t.pc = "i_leaf_mutate" -> innerInsertLeafMutate(W)

StepDelete(W) ==
    CASE W.t.pc = "td_rlock" -> treeDeleteRLock(W)
      [] W.t.pc = "td_chkleaf" -> treeDeleteChkLeaf(W)
      [] W.t.pc = "td_upgrade" -> treeDeleteUpgrade(W)
      [] W.t.pc = "td_setnil" -> treeDeleteSetNil(W)
      [] W.t.pc = "td_unlock" -> treeDeleteUnlock(W)
      [] W.t.pc = "td_runlock" -> treeDeleteRUnlock(W)
      [] W.t.pc = "td_call" -> treeDeleteCall(W)
      [] W.t.pc = "d_rlock" -> innerDelRLock(W)
      [] W.t.pc = "d_read" -> innerDelRead(W)
      [] W.t.pc = "d_nf_validate" -> innerDelNotFoundValidate(W)
      [] W.t.pc = "d_nf_parent" -> innerDelNotFoundParent(W)
      [] W.t.pc = "d_col_upparent" -> innerDelCollapseUpParent(W)
      [] W.t.pc = "d_col_upself" -> innerDelCollapseUpSelf(W)
      [] W.t.pc = "d_col_fail_unlock" -> innerDelCollapseFailUnlock(W)
      [] W.t.pc = "d_col_mutate" -> innerDelCollapseMutate(W)
      [] W.t.pc = "d_col_unlock_self" -> innerDelCollapseUnlockSelf(W)
      [] W.t.pc = "d_col_unlock_parent" -> innerDelCollapseUnlockParent(W)
      [] W.t.pc = "d_loc_upgrade" -> innerDelLocalUpgrade(W)
      [] W.t.pc = "d_loc_runlock" -> innerDelLocalRUnlock(W)
      [] W.t.pc = "d_loc_fail_unlock" -> innerDelLocalFailUnlock(W)
      [] W.t.pc = "d_loc_mutate" -> innerDelLocalMutate(W)
      [] W.t.pc = "d_unlock" -> innerDelUnlock(W)
      [] W.t.pc = "d_runlock_parent" -> innerDelRUnlockParent(W)

StepNext(W) ==
    CASE W.t.pc = "n_start" -> iterNextStart(W)
      [] W.t.pc = "n_init_rlock" -> iterInitRLock(W)
      [] W.t.pc = "n_init_root" -> iterInitRoot(W)
      [] W.t.pc = "n_init_runlock" -> iterInitRUnlock(W)
      [] W.t.pc = "n_adv_rlock" -> iterAdvanceRLock(W)
      [] W.t.pc = "n_adv_check" -> iterAdvanceCheck(W)
      [] W.t.pc = "n_adv_read" -> iterAdvanceRead(W)
      [] W.t.pc = "n_adv_validate" -> iterAdvanceValidate(W)

\* One step of the thread of W; a panic ends the thread whatever the step wrote after it.
Step(W) ==
    With(CASE W.t.op = "get" -> StepGet(W)
           [] W.t.op = "insert" -> StepInsert(W)
           [] W.t.op = "delete" -> StepDelete(W)
           [] W.t.op = "next" -> StepNext(W),
         LAMBDA V : IF V.panic THEN [V EXCEPT !.t.pc = "panic"] ELSE V)

\* A call run to its return with no other thread taking a step: at most fuel steps.
RECURSIVE Run(_, _)
Run(W, fuel) ==
    IF ~CanStep(W) THEN W
    ELSE IF fuel <= 1 THEN Step(W)
    ELSE With(Run(W, fuel \div 2), LAMBDA V : Run(V, fuel - (fuel \div 2)))

(***************************************************************************)
(* walk: the nodes below n in depth first order (inner.walk, leaf.walk and *)
(* the walk of each variant), and what the walk finds in the leaves.       *)
(***************************************************************************)
RECURSIVE walk(_, _)
RECURSIVE walkChilds(_, _, _, _)
\* The walk of childs[lo..hi] in index order, skipping the nil slots; the range is
\* halved so that the evaluation of a node256 stays shallow.
walkChilds(heap, childs, lo, hi) ==
    IF lo > hi THEN <<>>
    ELSE IF lo = hi
    THEN IF childs[lo] = Nil THEN <<>> ELSE walk(heap, childs[lo])
    ELSE walkChilds(heap, childs, lo, (lo + hi) \div 2)
         \o walkChilds(heap, childs, ((lo + hi) \div 2) + 1, hi)

walk(heap, n) ==
    IF isLeaf(heap, n) THEN <<n>>
    ELSE LET v == heap[n].node
         IN  IF v.kind \in {"node4", "node16"}
             THEN <<n>> \o walkChilds(heap, v.childs, 1, v.lth)
             ELSE <<n>> \o walkChilds(heap, v.childs, 1, Len(v.childs))

\* The nodes of the tree, and the key and value pairs of its leaves.
treeNodes(heap, root) ==
    IF root = Nil THEN {} ELSE LET w == walk(heap, root) IN {w[i] : i \in 1..Len(w)}

treeLeaves(heap, root) ==
    {<<heap[n].key, heap[n].value>> : n \in {m \in treeNodes(heap, root) : isLeaf(heap, m)}}

\* Tree.Empty
treeEmpty(r) == r = Nil

(***************************************************************************)
(* Bounds and inputs.  Keys are prefix free: no key is a prefix of another.*)
(***************************************************************************)
\* Operations of one sequential run.
MaxOps == 2

\* Values an Insert draws from: 1..MaxValue.
MaxValue == 2

\* Steps one call may take when it runs alone.
RunFuel == 200

Values == 1..MaxValue

\* Two keys that share nine bytes, one that leaves their prefix at byte three,
\* and one that shares nothing with them.
KA == <<1, 0, 0, 0, 0, 0, 0, 0, 0, 1>>

KB == <<1, 0, 0, 0, 0, 0, 0, 0, 0, 2>>

\* A key that shares exactly eight bytes with KA and KB.
KE == <<1, 0, 0, 0, 0, 0, 0, 0, 7, 2>>

KC == <<1, 0, 0, 5>>

KD == <<2, 3>>

\* Shares its first 8 bytes with KA; greater at the 9th byte, smaller at the 10th.
KF == <<1, 0, 0, 0, 0, 0, 0, 0, 7, 0>>

\* The keys 7.0, 7.1, ..., 7.(n-1) fill one node with n children.
Wide(n) == SubSeq([i \in 1..n |-> <<7, i - 1>>], 1, n)

KLow == <<7, 0>>

KHigh == <<7, 60>>

\* Keys of the concurrent runs: K1, K2 and K3 under one inner node, KX beside it.
K1 == <<1, 0, 1>>

K2 == <<1, 0, 2>>

K3 == <<1, 0, 3>>

KX == <<1, 5>>

OpKeys == {KA, KB, KC, KD, KE, KLow, KHigh}

\* The trees a run starts from, each named by the keys inserted to build it: empty,
\* a root leaf, chains of inner nodes, and a node of every variant at either end of
\* its range of children.
Preloads ==
    {<<>>, <<KA>>, <<KA, KB>>, <<KA, KB, KC>>, <<KD, KA, KC>>,
     Wide(4), Wide(5), Wide(16), Wide(17), Wide(48), Wide(49)}

AllKeys == OpKeys \cup {KF, K1, K2, K3, KX} \cup {<<7, b>> : b \in 0..48}

\* Calls of Next on one iterator.
MaxNext == 51

\* The bounds given to Tree.Iterator: none, and a key of the wide trees.
IterBounds == {<<>>, <<7, 2>>}

\* The trees an iterator runs over: keys inserted out of order among them.
IterPreloads ==
    {<<>>, <<KA>>, <<KA, KB, KC>>, <<KD, KA, KC>>, <<KA, KF>>,
     <<KHigh, <<7, 5>>, KLow, KD, <<7, 9>>, <<7, 2>>, KC, <<7, 1>>>>,
     Wide(4), Wide(17), Wide(49)}

\* Threads of a concurrent run.
Threads == {1, 2}

\* A call a run is to make.
Op(op, k, v) == [op |-> op, key |-> k, value |-> v]

(***************************************************************************)
(* The state: the tree (heap, root, lock), the threads, whether the        *)
(* program has panicked, and what the runs record about themselves: ref is *)
(* the map a sequential run should hold, nops the calls made, insOnly      *)
(* whether every call so far was an Insert, last the last call and its     *)
(* result, todo the calls each thread has still to make, out the results   *)
(* each thread has collected, load the keys still to insert while the     *)
(* tree of the run is being built.                                         *)
(***************************************************************************)
VARIABLES heap, root, lock, thr, panicked, ref, nops, insOnly, roundTrip, last, load, todo, out,
          iter, begun

vars ==
    <<heap, root, lock, thr, panicked, ref, nops, insOnly, roundTrip, last, load, todo, out, iter,
      begun>>

World(i) == [heap |-> heap, root |-> root, lock |-> lock, t |-> thr[i], panic |-> FALSE]

Commit(V, i) ==
    /\ heap' = V.heap
    /\ root' = V.root
    /\ lock' = V.lock
    /\ thr' = [thr EXCEPT ![i] = V.t]
    /\ panicked' = V.panic

\* var tree Tree
EmptyWorld == [heap |-> <<>>, root |-> Nil, lock |-> 0, t |-> NewThread, panic |-> FALSE]

NoCall ==
    [op |-> "none", key |-> <<>>, value |-> Nil, found |-> FALSE, val |-> Nil, pc |-> "done"]

\* The call op(k, v) of thread i has run to V: its effects, and the record of its result.
Return(V, i, op, k, v) ==
    /\ Commit(V, i)
    /\ last' = [op |-> op, key |-> k, value |-> v, found |-> V.t.found, val |-> V.t.val,
                pc |-> V.t.pc]

\* No iterator has been asked of the tree.
NoIter == [made |-> FALSE, start |-> <<>>, end |-> <<>>, reverse |-> FALSE]

\* The map of an empty tree: a key to <<value, found>>.
EmptyRef == [k \in AllKeys |-> <<Nil, FALSE>>]

\* No call on any key has begun: a key to <<values of the Inserts begun, a Delete begun>>.
NoneBegun == [k \in AllKeys |-> <<{}, FALSE>>]

\* An empty tree, the keys p to insert into it before the run proper, and the calls
\* each thread is to make after that.
InitWith(p, calls) ==
    /\ heap = EmptyWorld.heap
    /\ root = EmptyWorld.root
    /\ lock = EmptyWorld.lock
    /\ thr = [i \in Threads |-> NewThread]
    /\ panicked = FALSE
    /\ ref = EmptyRef
    /\ nops = 0
    /\ insOnly = TRUE
    /\ roundTrip = TRUE
    /\ last = NoCall
    /\ load = p
    /\ todo = calls
    /\ out = [i \in Threads |-> <<>>]
    /\ iter = NoIter
    /\ begun = NoneBegun

InitOn(p) == InitWith(p, [i \in Threads |-> <<>>])

Init == \E p \in Preloads : InitOn(p)

Loaded == load = <<>>

\* Tree.Insert(Head(load), 1) from call to return, while the tree is being built
Load ==
    /\ ~panicked
    /\ load # <<>>
    /\ Return(Run(BeginInsert(World(1), Head(load), 1), RunFuel), 1, "insert", Head(load), 1)
    /\ ref' = [ref EXCEPT ![Head(load)] = <<1, TRUE>>]
    /\ load' = Tail(load)
    /\ UNCHANGED <<nops, insOnly, roundTrip, todo, out, iter, begun>>

\* Tree.Get(k) run alone on the tree of heap h, root r and lock l: <<value, found, returned>>.
LookupIn(h, r, l, k) ==
    With(Run(BeginGet([heap |-> h, root |-> r, lock |-> l, t |-> NewThread, panic |-> FALSE], k),
             RunFuel),
         LAMBDA V : <<V.t.val, V.t.found, V.t.pc = "done">>)

Lookup(k) == LookupIn(heap, root, lock, k)

\* Tree.Insert(k, v), from call to return
Insert(k, v) ==
    /\ ~panicked
    /\ Loaded
    /\ nops < MaxOps
    /\ Return(Run(BeginInsert(World(1), k, v), RunFuel), 1, "insert", k, v)
    /\ ref' = [ref EXCEPT ![k] = <<v, TRUE>>]
    /\ nops' = nops + 1
    /\ roundTrip' = (roundTrip /\ insOnly /\ ~ref[k][2])
    /\ UNCHANGED <<insOnly, load, todo, out, iter, begun>>

\* Tree.Delete(k), from call to return
Delete(k) ==
    /\ ~panicked
    /\ Loaded
    /\ nops < MaxOps
    /\ Return(Run(BeginDelete(World(1), k), RunFuel), 1, "delete", k, Nil)
    /\ ref' = [ref EXCEPT ![k] = <<Nil, FALSE>>]
    /\ nops' = nops + 1
    /\ insOnly' = FALSE
    /\ roundTrip' = (roundTrip /\ ref[k][2])
    /\ UNCHANGED <<load, todo, out, iter, begun>>

\* Tree.Get(k), from call to return
Get(k) ==
    /\ ~panicked
    /\ Loaded
    /\ nops < MaxOps
    /\ Return(Run(BeginGet(World(1), k), RunFuel), 1, "get", k, Nil)
    /\ nops' = nops + 1
    /\ UNCHANGED <<ref, insOnly, roundTrip, load, todo, out, iter, begun>>

Next ==
    \/ Load
    \/ \E k \in OpKeys, v \in Values : Insert(k, v)
    \/ \E k \in OpKeys : Delete(k)
    \/ \E k \in OpKeys : Get(k)

Spec == Init /\ [][Next]_vars

(***************************************************************************)
(* Properties of sequential runs.                                          *)
(***************************************************************************)
\* Get answers for every key what the reference map holds for it.
Agrees == \A k \in AllKeys : Lookup(k) = <<ref[k][1], ref[k][2], TRUE>>

\* The keys of the leaves reachable from root r.
KeysOf(h, r) == {kv[1] : kv \in treeLeaves(h, r)}

\* The step is a call of op that started in a loaded tree and has returned or panicked.
Called(op) == nops' = nops + 1 /\ last'.op = op

\* C1: after inserts only, of distinct keys none of which is a prefix of another,
\* Get finds every inserted key with its value and finds no other key.
C1_InsertOnlyGetFindsExactlyInserted == (insOnly /\ roundTrip) => (~panicked /\ Agrees)

\* C2: after any sequence of Insert and Delete calls, Get agrees with a reference
\* map that was given the same calls, and no call panics.
C2_GetAgreesWithReferenceMap == ~panicked /\ Agrees

\* C3: when distinct keys are inserted and then deleted, each once, no Delete panics
\* and the tree is Empty once every key is deleted.
C3_RoundTripLeavesTreeEmpty ==
    [][(Called("delete") /\ roundTrip')
        => /\ ~panicked'
           /\ (\A k \in AllKeys : ~ref'[k][2]) => treeEmpty(root')]_vars

\* C4: Insert of a key that is in the tree returns, after it Get finds the key with
\* the new value, and the keys in the tree and what Get finds for other keys are the same.
C4_InsertExistingReplacesValue ==
    [][(Called("insert") /\ ref[last'.key][2])
        => /\ ~panicked'
           /\ last'.pc = "done"
           /\ LookupIn(heap', root', lock', last'.key) = <<last'.value, TRUE, TRUE>>
           /\ KeysOf(heap', root') = KeysOf(heap, root)
           /\ \A k \in AllKeys \ {last'.key} : LookupIn(heap', root', lock', k) = Lookup(k)]_vars

\* A key held by a node256 with 49 children was inserted again with a new value.
C4_Witness ==
    /\ nops = 1
    /\ last.op = "insert" /\ last.key = KLow /\ last.value = 2
    /\ root # Nil /\ ~isLeaf(heap, root) /\ heap[root].node.kind = "node256"
    /\ Cardinality(KeysOf(heap, root)) = 49
    /\ Lookup(KLow) = <<2, TRUE, TRUE>>

\* C8: Delete of a key that is not in the tree, when the tree is not empty, returns
\* and leaves the tree as it was.
C8_DeleteAbsentIsNoOp ==
    [][(Called("delete") /\ root # Nil /\ ~ref[last'.key][2])
        => /\ ~panicked'
           /\ last'.pc = "done"
           /\ root' = root
           /\ heap' = heap
           /\ KeysOf(heap', root') = KeysOf(heap, root)]_vars

\* Delete of an absent key has returned from a tree of three levels that holds its keys.
C8_Witness ==
    /\ nops = 1
    /\ last.op = "delete" /\ last.key = KE /\ last.pc = "done"
    /\ KeysOf(heap, root) = {KA, KB, KC}
    /\ Agrees

\* C9: Delete on an empty tree returns and leaves the tree empty.
C9_DeleteOnEmptyTreeReturns ==
    [][(Called("delete") /\ root = Nil) => (~panicked' /\ last'.pc = "done" /\ root' = Nil)]_vars

(***************************************************************************)
(* The shape of the tree between calls.                                    *)
(***************************************************************************)
\* The inner nodes reachable from the root.
InnerNodes == {n \in treeNodes(heap, root) : ~isLeaf(heap, n)}

\* The children of a fan-out node, each with the byte that selects it.
Entries(v) ==
    IF v.kind \in {"node4", "node16"} THEN {<<v.keys[i], v.childs[i]>> : i \in 1..v.lth}
    ELSE IF v.kind = "node48"
    THEN {<<b, v.childs[v.keys[b + 1]]>> : b \in {c \in 0..255 : v.keys[c + 1] # 0}}
    ELSE {<<b, v.childs[b + 1]>> : b \in {c \in 0..255 : v.childs[c + 1] # Nil}}

\* Every leaf below n has a key that starts with path, the bytes read from the root
\* down to n, followed by the prefix and the selecting byte of each node below.
RECURSIVE PathSpells(_, _, _)
PathSpells(h, n, path) ==
    IF n = Nil THEN TRUE
    ELSE IF isLeaf(h, n)
    THEN Len(path) <= Len(h[n].key) /\ SubSeq(h[n].key, 1, Len(path)) = path
    ELSE \A e \in Entries(h[n].node) :
            PathSpells(h, e[2], path \o SubSeq(h[n].prefix, 1, h[n].prefixLen) \o <<e[1]>>)

\* C21: after any sequence of Insert and Delete calls every inner node reachable
\* from the root has at least one child.
C21_InnerNodesHaveAChild ==
    (Loaded /\ ~panicked) => \A n \in InnerNodes : heap[n].node.lth >= 1

\* C22: after any sequence of Insert and Delete calls an inner node reachable from
\* the root has exactly one child only if its prefixLen is maxPrefixLen.
C22_OneChildOnlyWithFullPrefix ==
    (Loaded /\ ~panicked)
        => \A n \in InnerNodes : heap[n].node.lth = 1 => heap[n].prefixLen = maxPrefixLen

\* C23: after any sequence of Insert and Delete calls the key of every leaf is
\* spelled by the prefixes and the selecting bytes on its path from the root.
C23_LeafKeySpelledByPath == (Loaded /\ ~panicked) => PathSpells(heap, root, <<>>)

(***************************************************************************)
(* Runs of one iterator over a tree that nothing else touches.             *)
(***************************************************************************)
InitIter == \E p \in IterPreloads : InitOn(p)

\* Tree.Iterator(start, end), and Reverse() of it when rev
Iterator(start, end, rev) ==
    /\ ~panicked
    /\ Loaded
    /\ ~iter.made
    /\ thr' = [thr EXCEPT ![1].it = IF rev THEN iteratorReverse(NewIterator(start, end))
                                    ELSE NewIterator(start, end)]
    /\ iter' = [made |-> TRUE, start |-> start, end |-> end, reverse |-> rev]
    /\ UNCHANGED <<heap, root, lock, panicked, ref, nops, insOnly, roundTrip, last, load, todo,
                   out, begun>>

\* iterator.Next(), from call to return; out[1] collects the keys it emits
NextCall ==
    /\ ~panicked
    /\ iter.made
    /\ nops < MaxNext
    /\ With(Run(BeginNext(World(1)), RunFuel), LAMBDA V :
            /\ Return(V, 1, "next", V.t.it.key, V.t.it.value)
            /\ out' = [out EXCEPT ![1] = IF V.t.found /\ V.t.pc = "done"
                                         THEN Append(@, V.t.it.key) ELSE @])
    /\ nops' = nops + 1
    /\ UNCHANGED <<ref, insOnly, roundTrip, load, todo, iter, begun>>

NextIter ==
    \/ Load
    \/ \E start \in IterBounds, end \in IterBounds, rev \in BOOLEAN : Iterator(start, end, rev)
    \/ NextCall

SpecIter == InitIter /\ [][NextIter]_vars

\* The iterator is a forward iterator without bounds.
ForwardUnbounded == iter.made /\ ~iter.reverse /\ iter.start = <<>> /\ iter.end = <<>>

\* The keys the iterator has emitted.
Emitted == {out[1][i] : i \in 1..Len(out[1])}

\* C10: over a tree that nothing mutates, a forward iterator without bounds emits
\* every key of the tree once, in strictly ascending order, and then Next returns
\* false; over an empty tree the first Next returns false.
C10_ForwardIteratorEmitsAllAscending ==
    ForwardUnbounded
    => /\ ~panicked
       /\ last.op = "next" => last.pc = "done"
       /\ \A i \in 1..(Len(out[1]) - 1) : bytesCompare(out[1][i], out[1][i + 1]) < 0
       /\ Emitted \subseteq {k \in AllKeys : ref[k][2]}
       /\ (last.op = "next" /\ ~last.found) => Emitted = {k \in AllKeys : ref[k][2]}

\* The iterator is a reverse iterator without bounds.
ReverseUnbounded == iter.made /\ iter.reverse /\ iter.start = <<>> /\ iter.end = <<>>

\* C11: over a tree that nothing mutates, an iterator with Reverse() and no bounds
\* emits every key of the tree once, in strictly descending order, and then Next
\* returns false, whatever the variants of the inner nodes.
C11_ReverseIteratorEmitsAllDescending ==
    ReverseUnbounded
    => /\ ~panicked
       /\ last.op = "next" => last.pc = "done"
       /\ \A i \in 1..(Len(out[1]) - 1) : bytesCompare(out[1][i], out[1][i + 1]) > 0
       /\ Emitted \subseteq {k \in AllKeys : ref[k][2]}
       /\ (last.op = "next" /\ ~last.found) => Emitted = {k \in AllKeys : ref[k][2]}

\* The keys of the tree within the bounds of the iterator: above start, up to end.
InBounds ==
    {k \in AllKeys : /\ ref[k][2]
                      /\ (iter.start = <<>> \/ bytesCompare(k, iter.start) > 0)
                      /\ (iter.end = <<>> \/ bytesCompare(k, iter.end) <= 0)}

\* C12: a forward iterator with bounds (start, end) emits exactly the keys k of the
\* tree with start < k <= end, each once; a nil start or end is no bound on that side.
C12_ForwardBoundsStartExclusiveEndInclusive ==
    (iter.made /\ ~iter.reverse)
    => /\ ~panicked
       /\ last.op = "next" => last.pc = "done"
       /\ Len(out[1]) = Cardinality(Emitted)
       /\ Emitted \subseteq InBounds
       /\ (last.op = "next" /\ ~last.found) => Emitted = InBounds

(***************************************************************************)
(* Runs of one iterator with an Insert between two of its Next calls       *)
(* (TestIteratorConcurrentExpansion): the Insert runs from call to return. *)
(***************************************************************************)
\* The tree loaded and the key inserted later: a split of the root's prefix, a split
\* of a leaf, the growth of the root, a new child of a lower node, a new root level.
IterScenarios ==
    {[load |-> <<K1, K2>>, calls |-> <<<<>>, <<Op("insert", KX, 2)>>>>],
     [load |-> <<KD, KLow>>, calls |-> <<<<>>, <<Op("insert", KHigh, 2)>>>>],
     [load |-> Wide(4), calls |-> <<<<>>, <<Op("insert", KHigh, 2)>>>>],
     [load |-> <<K1, K3, KX>>, calls |-> <<<<>>, <<Op("insert", K2, 2)>>>>],
     [load |-> <<KA, KB, KC>>, calls |-> <<<<>>, <<Op("insert", KD, 2)>>>>]}

InitIterInsert == \E s \in IterScenarios : InitWith(s.load, s.calls)

\* tree.Insert(key, value) after a Next of the iterator; out[2] records the key, the
\* keys emitted before it and whether the Next before it returned true.
InsertBetween ==
    /\ ~panicked
    /\ iter.made
    /\ nops >= 1
    /\ todo[2] # <<>>
    /\ LET c == Head(todo[2])
       IN  /\ Return(Run(BeginInsert(World(2), c.key, c.value), RunFuel), 2, "insert",
                     c.key, c.value)
           /\ ref' = [ref EXCEPT ![c.key] = <<c.value, TRUE>>]
           /\ out' = [out EXCEPT ![2] = Append(@, [key |-> c.key, seen |-> out[1],
                                                   open |-> last.found])]
    /\ todo' = [todo EXCEPT ![2] = Tail(@)]
    /\ UNCHANGED <<nops, insOnly, roundTrip, load, iter, begun>>

NextIterInsert ==
    \/ Load
    \/ \E start \in IterBounds, end \in IterBounds, rev \in BOOLEAN : Iterator(start, end, rev)
    \/ NextCall
    \/ InsertBetween

SpecIterInsert == InitIterInsert /\ [][NextIterInsert]_vars

\* Every Insert so far came after a Next that returned true and put in a key greater
\* than the key that Next emitted.
InsertedAboveCursor ==
    \A i \in 1..Len(out[2]) :
        /\ out[2][i].open
        /\ bytesCompare(out[2][i].key, out[2][i].seen[Len(out[2][i].seen)]) > 0

Scenarios ==
    {[load |-> <<>>,
      calls |-> <<<<Op("insert", K1, 2), Op("insert", K1, 3)>>,
                  <<Op("get", K1, Nil), Op("get", K1, Nil)>>>>],
     [load |-> <<K1, K2>>,
      calls |-> <<<<Op("insert", K1, 2), Op("insert", K1, 3)>>,
                  <<Op("get", K1, Nil), Op("get", K1, Nil)>>>>],
     [load |-> <<KX>>,
      calls |-> <<<<Op("insert", K1, 2), Op("insert", K1, 3)>>,
                  <<Op("get", K1, Nil), Op("get", K1, Nil)>>>>],
     [load |-> <<K2, K3>>,
      calls |-> <<<<Op("insert", KX, 2), Op("insert", KX, 3)>>,
                  <<Op("get", KX, Nil), Op("get", KX, Nil)>>>>],
     [load |-> Wide(4),
      calls |-> <<<<Op("insert", KHigh, 2), Op("insert", KHigh, 3)>>,
                  <<Op("get", KHigh, Nil), Op("get", KHigh, Nil)>>>>],
     [load |-> <<K1, K2, KX>>,
      calls |-> <<<<Op("delete", KX, Nil)>>, <<Op("get", K1, Nil)>>>>],
     [load |-> <<K1, K2>>,
      calls |-> <<<<Op("insert", KX, 2), Op("delete", KX, Nil)>>, <<Op("get", K1, Nil)>>>>],
     [load |-> Wide(5),
      calls |-> <<<<Op("delete", <<7, 4>>, Nil), Op("insert", <<7, 4>>, 2)>>,
                  <<Op("get", KLow, Nil)>>>>],
     [load |-> <<>>,
      calls |-> <<<<Op("insert", K1, 2), Op("delete", K1, Nil)>>,
                  <<Op("insert", KX, 2), Op("delete", KX, Nil)>>>>],
     [load |-> <<K1, K2, KX>>,
      calls |-> <<<<Op("insert", K3, 2)>>, <<Op("delete", KX, Nil)>>>>],
     [load |-> <<K1, KX>>,
      calls |-> <<<<Op("delete", K1, Nil)>>, <<Op("delete", KX, Nil)>>>>]}

InitConc == \E s \in Scenarios : InitWith(s.load, s.calls)

\* The call c as thread i has begun it and not yet returned from it.
Pending(c) ==
    [op |-> c.op, key |-> c.key, value |-> c.value, pre |-> ref[c.key], ret |-> FALSE,
     found |-> FALSE, val |-> Nil, vals |-> {}, del |-> FALSE]

\* Thread i begins its next call.
Call(i) ==
    /\ ~panicked
    /\ Loaded
    /\ thr[i].pc = "done"
    /\ todo[i] # <<>>
    /\ LET c == Head(todo[i])
       IN  /\ Commit(CASE c.op = "get" -> BeginGet(World(i), c.key)
                       [] c.op = "insert" -> BeginInsert(World(i), c.key, c.value)
                       [] c.op = "delete" -> BeginDelete(World(i), c.key), i)
           /\ begun' = [begun EXCEPT ![c.key] =
                           CASE c.op = "insert" -> <<@[1] \cup {c.value}, @[2]>>
                             [] c.op = "delete" -> <<@[1], TRUE>>
                             [] OTHER -> @]
           /\ out' = [out EXCEPT ![i] = Append(@, Pending(c))]
    /\ todo' = [todo EXCEPT ![i] = Tail(@)]
    /\ UNCHANGED <<ref, nops, insOnly, roundTrip, last, load, iter>>

\* Thread i takes the next step of its call; a return is recorded in out[i] and ref.
StepOf(i) ==
    /\ ~panicked
    /\ CanStep(World(i))
    /\ With(Step(World(i)), LAMBDA V :
            IF V.t.pc = "done"
            THEN /\ Commit([V EXCEPT !.t = [NewThread EXCEPT !.it = V.t.it]], i)
                 /\ last' = [op |-> V.t.op, key |-> V.t.key, value |-> V.t.value,
                             found |-> V.t.found, val |-> V.t.val, pc |-> V.t.pc]
                 /\ out' = [out EXCEPT ![i][Len(out[i])] =
                               [@ EXCEPT !.ret = TRUE, !.found = V.t.found, !.val = V.t.val,
                                         !.vals = begun[V.t.key][1], !.del = begun[V.t.key][2]]]
                 /\ ref' = CASE V.t.op = "insert" -> [ref EXCEPT ![V.t.key] = <<V.t.value, TRUE>>]
                             [] V.t.op = "delete" -> [ref EXCEPT ![V.t.key] = <<Nil, FALSE>>]
                             [] OTHER -> ref
            ELSE /\ Commit(V, i)
                 /\ UNCHANGED <<last, out, ref>>)
    /\ UNCHANGED <<nops, insOnly, roundTrip, load, todo, iter, begun>>

NextConc ==
    \/ Load
    \/ \E i \in Threads : Call(i)
    \/ \E i \in Threads : StepOf(i)

SpecConc == InitConc /\ [][NextConc]_vars

\* Every call has returned.
Quiescent == Loaded /\ \A i \in Threads : todo[i] = <<>> /\ thr[i].pc = "done"

\* The calls begun so far, each with its thread.
Calls == {<<i, n>> : i \in Threads, n \in 1..2} \cap {c \in Threads \X (1..2) : c[2] <= Len(out[c[1]])}

CallOf(c) == out[c[1]][c[2]]

\* What a Get returned as a number: 0 for not found.
Seen(e) == IF e.found THEN e.val ELSE 0

\* One thread inserts ever greater values under one key and the other calls are Gets
\* of that key.
SingleRegister ==
    \A c \in Calls, d \in Calls :
        /\ CallOf(c).op \in {"insert", "get"}
        /\ CallOf(c).key = CallOf(d).key
        /\ (CallOf(c).op = "insert" /\ CallOf(d).op = "insert")
           => /\ c[1] = d[1]
              /\ c[2] < d[2] => CallOf(c).value < CallOf(d).value

\* C5: with one thread calling Insert(k, i) for growing i and another calling Get(k),
\* each Get returns the value of the last Insert that returned before the Get began or
\* of a later Insert, and the values a reader sees never go backwards.
C5_SingleKeyLinearizable ==
    SingleRegister
    => /\ ~panicked
       /\ \A c \in Calls :
            (CallOf(c).op = "get" /\ CallOf(c).ret)
            => /\ CallOf(c).pre[2] => CallOf(c).found
               /\ CallOf(c).found
                  => /\ CallOf(c).val \in CallOf(c).vals \cup {CallOf(c).pre[1]}
                     /\ CallOf(c).val >= CallOf(c).pre[1]
               /\ (c[2] > 1 /\ out[c[1]][c[2] - 1].op = "get")
                  => Seen(CallOf(c)) >= Seen(out[c[1]][c[2] - 1])

\* The reader saw the two values of the writer, in order, in a tree the writer split.
C5_Witness ==
    /\ Quiescent
    /\ SingleRegister
    /\ Len(out[2]) = 2
    /\ out[2][1].key = KX
    /\ Seen(out[2][1]) = 2
    /\ Seen(out[2][2]) = 3

\* C6: a Get of a key that was inserted before the Get began and that no Delete
\* names finds the key with an inserted value, whatever calls on other keys run
\* beside it.
C6_GetOfStableKeyFinds ==
    \A c \in Calls :
        (CallOf(c).op = "get" /\ CallOf(c).ret /\ CallOf(c).pre[2] /\ ~CallOf(c).del)
        => /\ CallOf(c).found
           /\ CallOf(c).val \in CallOf(c).vals \cup {CallOf(c).pre[1]}

\* No key is inserted or deleted by two threads.
DisjointKeys ==
    \A c \in Calls, d \in Calls :
        (CallOf(c).op # "get" /\ CallOf(d).op # "get" /\ CallOf(c).key = CallOf(d).key)
        => c[1] = d[1]

\* C7: after concurrent Inserts and Deletes of disjoint keys have all returned, Get
\* finds every key inserted and not deleted, with its value, and no deleted key, and
\* the tree is Empty when every key is deleted.
C7_DisjointKeysQuiescentAgree ==
    (Quiescent /\ DisjointKeys)
    => /\ Agrees
       /\ (\A k \in AllKeys : ~ref[k][2]) => treeEmpty(root)

\* The inner nodes that a step writes: their prefix, prefixLen or variant changes.
Written ==
    {n \in 1..Len(heap) :
        /\ heap[n].type = "inner"
        /\ \/ heap'[n].prefix # heap[n].prefix
           \/ heap'[n].prefixLen # heap[n].prefixLen
           \/ heap'[n].node.kind # heap[n].node.kind}

\* C19: a step of a thread writes the prefix, the prefixLen or the variant of an inner
\* node only while the lock of that node is write-held, the child that inherits its
\* parent's prefix in a collapse included.
C19_NodeWritesUnderOwnLock ==
    [][Loaded => \A n \in Written : isLocked(heap[n].lock)]_vars

\* Thread i releases the lock of the node it has collapsed: the step after the
\* removal and replace(left.inherit(...)) of inner.del.
CollapseRelease(i) == thr[i].pc = "d_col_unlock_self" /\ thr'[i].pc # "d_col_unlock_self"

\* The node of the innermost call of thread i.
TopNode(i) == thr[i].frames[Len(thr[i].frames)].n

\* C24: the lock of a node that a Delete has collapsed is released in the obsolete
\* state, so that whoever read-locks the detached node afterwards restarts.
C24_CollapsedNodeReleasedObsolete ==
    [][\A i \in Threads : CollapseRelease(i) => isObsolete(heap'[TopNode(i)].lock)]_vars

\* Two threads on the tree of K1, K2 and KX: one Insert of a key that is there, and
\* beside it a Delete that collapses the root followed by an Insert that splits the
\* prefix of the new root.
InitRootRace ==
    \E k \in {K1, K2}, v \in Values :
        InitWith(<<K1, K2, KX>>,
                 <<<<Op("insert", k, v)>>, <<Op("delete", KX, Nil), Op("insert", KD, 2)>>>>)

SpecRootRace == InitRootRace /\ [][NextConc]_vars

\* The write locks thread i holds, by the place it has reached: the tree's lock
\* between Upgrade and Unlock in Tree.Insert and Tree.Delete, the parent's lock and
\* the node's own between the Upgrades and the Unlocks of inner.insert and inner.del.
Held(i) ==
    LET pc == thr[i].pc
        f == thr[i].frames[Len(thr[i].frames)]
    IN  IF pc \in {"ti_nil_set", "ti_leaf_call", "ti_leaf_setroot", "ti_unlock",
                   "td_setnil", "td_unlock"}
        THEN {TreeLock}
        ELSE IF pc \in {"i_split_upself", "i_split_fail_unlock", "i_split_unlock_parent",
                        "d_col_upself", "d_col_fail_unlock", "d_col_unlock_parent"}
        THEN {f.parent}
        ELSE IF pc \in {"i_split_mutate", "i_split_unlock_self",
                        "d_col_mutate", "d_col_unlock_self"}
        THEN {f.parent, f.n}
        ELSE IF pc \in {"i_add_runlock", "i_add_fail_unlock", "i_add_mutate", "i_unlock",
                        "i_leaf_mutate", "d_loc_runlock", "d_loc_fail_unlock",
                        "d_loc_mutate", "d_unlock"}
        THEN {f.n}
        ELSE {}

\* The locks whose locked bit is set: the tree's and those of the inner nodes.
LockedLocks ==
    {x \in {TreeLock} \cup {n \in 1..Len(heap) : heap[n].type = "inner"} :
        isLocked(IF x = TreeLock THEN lock ELSE heap[x].lock)}

\* Lock p is the lock of the direct parent of node x: the tree's lock for the root.
IsParentLock(p, x) ==
    IF p = TreeLock THEN root = x
    ELSE \E e \in Entries(heap[p].node) : e[2] = x

\* C25: a thread takes a second write lock only in a prefix split and in a collapse,
\* the lock it holds then is that of the direct parent of the node whose lock it
\* takes, and it never holds more than these two.
C25_SecondLockIsChildOfHeldParent ==
    [][\A i \in Threads : \A x \in Held(i)' \ Held(i) :
          \/ Held(i) = {}
          \/ /\ thr[i].pc \in {"i_split_upself", "d_col_upself"}
             /\ Held(i)' = Held(i) \cup {x}
             /\ \A p \in Held(i) : IsParentLock(p, x)]_vars

\* The innermost call of thread i.
TopFrame(i) == thr[i].frames[Len(thr[i].frames)]

\* Thread i invokes the replace function of inner.del: the collapse step has run
\* to its end.
Replaces(i) == thr[i].pc = "d_col_mutate" /\ thr'[i].pc = "d_col_unlock_self"

\* Thread i takes a step that assigns t.root: in Tree.Insert, in Tree.Delete, or
\* through the replace function that Tree.Delete passes to the root node.
WritesRoot(i) ==
    /\ thr'[i] # thr[i]
    /\ IF thr[i].pc \in {"ti_nil_set", "ti_leaf_setroot", "ti_setroot", "td_setnil"} THEN TRUE
       ELSE IF thr[i].pc = "d_col_mutate" THEN Replaces(i) /\ TopFrame(i).rpar = Nil
       ELSE FALSE

\* C26: the replace function is invoked only while the invoking thread write-holds
\* the lock of the parent whose pointer it rewrites and the lock of the collapsing
\* node, and t.root is never assigned without the tree's lock being write-held.
C26_ReplaceAndRootWriteUnderLocks ==
    [][\A i \in Threads :
          /\ Replaces(i) =>
                /\ Held(i) = {TopFrame(i).parent, TopFrame(i).n}
                /\ Held(i) \subseteq LockedLocks
                /\ TopFrame(i).parent = (IF TopFrame(i).rpar = Nil THEN TreeLock
                                         ELSE TopFrame(i).rpar)
          /\ WritesRoot(i) => (TreeLock \in Held(i) /\ isLocked(lock))]_vars

\* Thread i can take a step of its call: the enabling condition of StepOf(i).
StepEnabled(i) == ~panicked /\ CanStep(World(i))

\* The step is one of thread i inside a call: what a step of StepOf(i) changes.
Stepped(i) == thr'[i] # thr[i] /\ todo' = todo /\ load' = load

\* Every step a thread can take changes that thread, so StepEnabled(i) is the
\* enabling condition of a step of StepOf(i) that is not a stuttering step.
StepsMove == \A i \in Threads : StepEnabled(i) => Step(World(i)).t # thr[i]

\* The concurrent runs under a fair scheduler: a goroutine that can begin a call or
\* take a step is not passed over for ever.  The second conjunct is WF_vars(StepOf(i))
\* written out, with the enabling condition given by StepEnabled(i).
SpecConcFair ==
    /\ InitConc
    /\ [][NextConc]_vars
    /\ \A i \in Threads : /\ WF_vars(Call(i))
                          /\ ([]<>(~StepEnabled(i)) \/ []<><<Stepped(i)>>_vars)

\* C27: with finitely many concurrent calls and a fair scheduler every call
\* eventually returns: once the tree is loaded, the run reaches the state where
\* every thread has made all its calls and returned from the last.
C27_EveryCallReturns == Loaded ~> Quiescent

\* C28: the locks whose locked bit is set are those held by the calls in progress,
\* each acquired through Upgrade and not yet released; when no call is in progress
\* no lock, the tree's or an inner node's, has its locked bit set.
C28_NoLockLeftLocked ==
    (Loaded /\ ~panicked)
        => /\ LockedLocks = UNION {Held(i) : i \in Threads}
           /\ (\A i \in Threads : thr[i].pc = "done") => LockedLocks = {}

\* Every call has returned and no lock is locked, after a run in which the tree's
\* lock was upgraded and released once more than the three Inserts of the load, the
\* collapse and the split account for (4 each): an attempt took the parent's lock,
\* failed the second Upgrade, released the parent and started again.
C28_Witness ==
    /\ Quiescent
    /\ ~panicked
    /\ lock > 20
    /\ LockedLocks = {}

(***************************************************************************)
(* A forward iterator of thread 1 while thread 2 inserts and deletes, the  *)
(* steps of the two interleaved.                                           *)
(***************************************************************************)
\* The tree loaded and the calls of thread 2: a new child and a removed child of
\* the root while the iterator is below it, a split of the root's prefix, the
\* growth of the root and a removal from it.
IterConcScenarios ==
    {[load |-> <<K1, K2, KD>>, calls |-> <<<<>>, <<Op("insert", KLow, 2)>>>>],
     [load |-> <<K1, K2, KD, KLow>>, calls |-> <<<<>>, <<Op("delete", KLow, Nil)>>>>],
     [load |-> <<K1, K2>>, calls |-> <<<<>>, <<Op("insert", KX, 2)>>>>],
     [load |-> Wide(4),
      calls |-> <<<<>>, <<Op("insert", KHigh, 2), Op("delete", KLow, Nil)>>>>]}

InitIterConc == \E s \in IterConcScenarios : InitWith(s.load, s.calls)

\* Thread 1 calls iterator.Next(): the loop for iter.Next() { ... } goes on while
\* the last Next returned true.
NextBegin ==
    /\ ~panicked
    /\ iter.made
    /\ thr[1].pc = "done"
    /\ thr[1].op = "next" => thr[1].found
    /\ nops < MaxNext
    /\ Commit(BeginNext(World(1)), 1)
    /\ nops' = nops + 1
    /\ UNCHANGED <<ref, insOnly, roundTrip, last, load, todo, out, iter, begun>>

\* Thread 1 takes the next step of its Next; out[1] collects the keys it emits.
NextStep ==
    /\ ~panicked
    /\ thr[1].op = "next"
    /\ CanStep(World(1))
    /\ With(Step(World(1)), LAMBDA V :
            /\ Commit(V, 1)
            /\ out' = [out EXCEPT ![1] = IF V.t.pc = "done" /\ V.t.found
                                         THEN Append(@, V.t.it.key) ELSE @]
            /\ last' = IF V.t.pc = "done"
                       THEN [op |-> "next", key |-> V.t.it.key, value |-> V.t.it.value,
                             found |-> V.t.found, val |-> V.t.val, pc |-> V.t.pc]
                       ELSE last)
    /\ UNCHANGED <<ref, nops, insOnly, roundTrip, load, todo, iter, begun>>

NextIterConc ==
    \/ Load
    \/ \E start \in IterBounds, end \in IterBounds : Iterator(start, end, FALSE)
    \/ NextBegin
    \/ NextStep
    \/ Call(2)
    \/ StepOf(2)

SpecIterConc == InitIterConc /\ [][NextIterConc]_vars

\* The keys that are in the tree from before the iterator was made and that no
\* call of thread 2 inserts or deletes.
StableKeys == {k \in AllKeys : ref[k][2] /\ begun[k] = <<{}, FALSE>>}

\* The loop over the iterator has ended: Next has returned false.
IterationEnded == thr[1].op = "next" /\ thr[1].pc = "done" /\ ~thr[1].found

\* C29: a key that is in the tree for the whole lifetime of a forward iterator and
\* lies within its bounds has been emitted when Next returns false, whatever
\* thread 2 inserts or deletes meanwhile.
C29_StableKeyIsEmitted ==
    (iter.made /\ IterationEnded) => (StableKeys \cap InBounds) \subseteq Emitted

\* C30: the keys one forward iterator emits are strictly increasing in byte order
\* under every interleaving with the calls of thread 2.
C30_EmittedStrictlyIncreasing ==
    iter.made => \A i \in 1..(Len(out[1]) - 1) : bytesCompare(out[1][i], out[1][i + 1]) < 0

\* The loop has ended having emitted K1, KD and KLow over the tree of K1, K2 and KD:
\* the Insert of KLow changed the root while the iterator was below it, after K1,
\* and the iterator went back to the checkpoint of the root and on from there.
C30_Witness ==
    /\ IterationEnded
    /\ out[1] = <<K1, KD, KLow>>
    /\ ref[K2][2]

(***************************************************************************)
(* Readers beside a writer: thread 1 runs a forward iterator, or makes     *)
(* Gets, while the other thread inserts and deletes.                       *)
(***************************************************************************)
\* The runs of a Get beside a writer and those of an iterator beside a writer.
ReaderScenarios ==
    {s \in Scenarios : \E c \in 1..Len(s.calls[2]) : s.calls[2][c].op = "get"}
        \cup IterConcScenarios

InitReaders == \E s \in ReaderScenarios : InitWith(s.load, s.calls)

\* A thread with calls to make makes them; a thread without runs the iterator.
NextReaders ==
    \/ Load
    \/ \E start \in IterBounds, end \in IterBounds :
           todo[1] = <<>> /\ todo[2] # <<>> /\ Iterator(start, end, FALSE)
    \/ NextBegin
    \/ NextStep
    \/ \E i \in Threads : Call(i)
    \/ \E i \in Threads : thr[i].op # "next" /\ StepOf(i)

SpecReaders == InitReaders /\ [][NextReaders]_vars

\* The step is one of thread i in a Get or a Next, the call and the return included.
ReaderStep(i) ==
    /\ thr'[i] # thr[i]
    /\ thr[i].op \in {"get", "next"} \/ thr'[i].op \in {"get", "next"}

\* C31: a step of Get or of Next changes no lock, the tree's or a node's, no node
\* and not the root pointer, whatever the other thread is doing.
C31_ReadersNeverWrite ==
    [][\A i \in Threads : ReaderStep(i) => (heap' = heap /\ lock' = lock /\ root' = root)]_vars

\* A Get or a Next has returned while the other thread is inside an Insert or a
\* Delete and holds a write lock.
C31_Witness ==
    /\ last.op \in {"get", "next"}
    /\ last.pc = "done"
    /\ \E i \in Threads : thr[i].op \in {"insert", "delete"} /\ Held(i) # {}

(***************************************************************************)
(* Two writers on one tree, so that the attempts of inner.insert and       *)
(* inner.del meet a changed parent and a failed Upgrade.                   *)
(***************************************************************************)
\* An add below the root beside a collapse of the root; two collapses of the root;
\* a split of the root beside an add to it; a local removal below the root beside
\* a collapse of the root; a Delete of an absent key below the root beside a split;
\* a collapse of the root beside an add to it.
WriterScenarios ==
    {[load |-> <<K1, K2, KX>>, calls |-> <<<<Op("insert", K3, 2)>>, <<Op("delete", KX, Nil)>>>>],
     [load |-> <<K1, KX>>, calls |-> <<<<Op("delete", K1, Nil)>>, <<Op("delete", KX, Nil)>>>>],
     [load |-> <<K1, K2>>, calls |-> <<<<Op("insert", K3, 2)>>, <<Op("insert", KX, 2)>>>>],
     [load |-> <<K1, K2, K3, KX>>,
      calls |-> <<<<Op("delete", K3, Nil)>>, <<Op("delete", KX, Nil)>>>>],
     [load |-> <<K1, K2, KX>>, calls |-> <<<<Op("delete", K3, Nil)>>, <<Op("insert", KD, 2)>>>>],
     [load |-> Wide(2), calls |-> <<<<Op("delete", KLow, Nil)>>, <<Op("insert", <<7, 2>>, 2)>>>>]}

InitWriters == \E s \in WriterScenarios : InitWith(s.load, s.calls)

\* The lock versions up to which the writers are followed: two writers can make each
\* other restart without end, every round adding to the versions.
MaxVersion == 40

VersionsBelow(v) ==
    /\ lock < v
    /\ \A n \in 1..Len(heap) : heap[n].type = "inner" => heap[n].lock < v

NextWriters ==
    \/ Load
    \/ \E i \in Threads : Call(i)
    \/ \E i \in Threads : VersionsBelow(MaxVersion) /\ StepOf(i)

SpecWriters == InitWriters /\ [][NextWriters]_vars

\* The places of inner.insert from which every return is return _, true.
InsertRestartSites ==
    {"i_rlock", "i_split_upparent", "i_split_fail_unlock", "i_add_fail_unlock",
     "i_runlock_parent"}

\* The step is a return of inner.insert or inner.del by thread i with restart = true:
\* the frame of the attempt is left and its caller goes round its loop.
RestartReturn(i) ==
    /\ thr[i].frames # <<>>
    /\ Len(thr'[i].frames) < Len(thr[i].frames)
    /\ IF thr[i].pc \in InsertRestartSites THEN TRUE ELSE thr'[i].pc \in {"d_rlock", "td_rlock"}

\* The places where an attempt writes a node or calls replace, and those it passes
\* between such a write and its return.
MutateSites == {"i_split_mutate", "i_add_mutate", "i_leaf_mutate", "d_col_mutate", "d_loc_mutate"}

AfterMutateSites ==
    {"i_split_unlock_self", "i_split_unlock_parent", "i_unlock", "d_col_unlock_self",
     "d_col_unlock_parent", "d_unlock"}

\* The step leaves the root pointer and every node as they were, locks apart.
ShapeKept ==
    /\ root' = root
    /\ Len(heap') >= Len(heap)
    /\ \A n \in 1..Len(heap) :
          IF heap[n].type = "inner" THEN [heap'[n] EXCEPT !.lock = 0] = [heap[n] EXCEPT !.lock = 0]
          ELSE heap'[n] = heap[n]

\* The call of thread i, run alone from the state after the step, returns with its
\* effect in the tree.
RepeatSucceeds(i) ==
    With(Run([heap |-> heap', root |-> root', lock |-> lock', t |-> thr'[i], panic |-> FALSE],
             RunFuel), LAMBDA V :
         /\ V.t.pc \in {"done", "ti_setroot"}
         /\ ~V.panic
         /\ LookupIn(V.heap, IF V.t.pc = "ti_setroot" THEN V.t.retnode ELSE V.root, V.lock,
                     thr[i].key)
               = IF thr[i].op = "insert" THEN <<thr[i].value, TRUE, TRUE>> ELSE <<Nil, FALSE, TRUE>>)

\* C32: an attempt of inner.insert or inner.del that returns restart = true has
\* written no node and not the root pointer, only locks: within an attempt the
\* nodes are written at the mutating places only, and from there the attempt goes
\* to its Unlocks and returns false.  Repeated while no other thread holds a lock,
\* the call then returns with its effect in the tree.
C32_RestartChangesNothingAndRepeatSucceeds ==
    [][\A i \in Threads :
          (thr'[i] # thr[i] /\ thr[i].frames # <<>>) =>
              /\ RestartReturn(i) =>
                    /\ ShapeKept
                    /\ thr[i].pc \notin MutateSites \cup AfterMutateSites
                    /\ (\A j \in Threads \ {i} : Held(j) = {}) => RepeatSucceeds(i)
              /\ ~ShapeKept => thr[i].pc \in MutateSites
              /\ thr[i].pc \in MutateSites => thr'[i].pc \in AfterMutateSites \cup {"panic"}
              /\ thr[i].pc \in AfterMutateSites =>
                    (thr'[i].pc \in AfterMutateSites \/ thr'[i].frames = <<>>)]_vars

\* Tree.Insert is about to go round its loop after inner.insert on the root returned
\* n, true, the other thread has returned from its call, and the tree still has no K3.
C32_Witness ==
    /\ thr[1].op = "insert"
    /\ thr[1].pc = "ti_rlock"
    /\ thr[1].retnode # Nil
    /\ thr[2].pc = "done"
    /\ todo[2] = <<>>
    /\ ~Lookup(K3)[2]

(***************************************************************************)
(* One thread making two calls, the second a Delete, taken step by step.   *)
(***************************************************************************)
\* The tree loaded and the two calls of thread 1.
InitSteps ==
    \E p \in Preloads, k \in OpKeys, d \in OpKeys, first \in {"insert", "delete"} :
        InitWith(p, <<<<Op(first, k, 2), Op("delete", d, Nil)>>, <<>>>>)

SpecSteps == InitSteps /\ [][NextConc]_vars

\* Thread i is at the collapse of inner.del: both locks are upgraded, the removal
\* is the next step.
AtCollapse(i) == thr[i].op = "delete" /\ thr[i].pc = "d_col_mutate"

\* The node a thread is working on: the node of its innermost call.
NodeOf(i) == heap[thr[i].frames[Len(thr[i].frames)].n]

\* C20: when Delete takes the collapse branch the node has exactly two children, so
\* a child remains after the removal and the collapse ends without a fault.
C20_CollapseHasTwoChildren ==
    [][\A i \in Threads :
          AtCollapse(i) => /\ NodeOf(i).node.lth = 2
                           /\ ~panicked'
                           /\ thr'[i].pc # "panic"]_vars

(***************************************************************************)
(* Growth of the variants, at the step of inner.insert that adds a child.  *)
(***************************************************************************)
\* The children a variant holds at most, and the variant grow() turns it into.
Capacity(kind) ==
    CASE kind = "node4" -> 4 [] kind = "node16" -> 16 [] kind = "node48" -> 48
      [] kind = "node256" -> 256

Larger(kind) ==
    CASE kind = "node4" -> "node16" [] kind = "node16" -> "node48" [] kind = "node48" -> "node256"
      [] kind = "node256" -> "none"

\* The child the variant v yields for byte b, Nil when it has none.
ChildAt(v, b) == inodeChild(v, b)[2]

\* Thread i is at the addChild of inner.insert and takes that step.
AddsChild(i) == thr[i].pc = "i_add_mutate" /\ thr'[i] # thr[i]

\* C33: when Insert adds a branching byte to a node whose variant holds 4, 16 or 48
\* children, the variant is replaced by the next larger one and then the child is
\* added; a variant that is not full is kept.  Either way every byte stored before
\* yields the same child afterwards, the new byte yields the new leaf, the count
\* goes up by one, and no node's count exceeds the capacity of its variant.
C33_GrowthBeforeAddChild ==
    [][\A i \in Threads : AddsChild(i) =>
          With(heap[TopFrame(i).n].node, LAMBDA old :
          With(heap'[TopFrame(i).n].node, LAMBDA new :
          With(thr[i].key[TopFrame(i).nextDepth + 1], LAMBDA byte :
              /\ thr'[i].pc = "i_unlock"
              /\ old.lth <= Capacity(old.kind)
              /\ new.kind = IF old.lth = Capacity(old.kind) THEN Larger(old.kind) ELSE old.kind
              /\ new.lth = old.lth + 1
              /\ new.lth <= Capacity(new.kind)
              /\ ChildAt(new, byte) = thr[i].leaf
              /\ \A b \in 0..255 : b # byte => ChildAt(new, b) = ChildAt(old, b))))]_vars

\* Thread 1 has added KHigh to the root that held the 16 keys 7.0 to 7.15 in a
\* node16: the root is a node48 of 17 children.
C33_Witness ==
    /\ thr[1].pc = "i_unlock"
    /\ thr[1].key = KHigh
    /\ heap[root].node.kind = "node48"
    /\ heap[root].node.lth = 17

(***************************************************************************)
(* Shrinking of the variants, at the step of inner.del that removes a      *)
(* child from a node it keeps.                                             *)
(***************************************************************************)
\* The variant shrink() turns a variant into.
Smaller(kind) ==
    CASE kind = "node256" -> "node48" [] kind = "node48" -> "node16" [] kind = "node16" -> "node4"
      [] kind = "node4" -> "none"

\* The first lth keys of a node4 or node16 are strictly ascending.
KeysAscending(v) ==
    v.kind \in {"node4", "node16"} => \A x \in 1..(v.lth - 1) : v.keys[x] < v.keys[x + 1]

\* Thread i is at the replace(idx, nil) of the local removal and takes that step.
RemovesChild(i) == thr[i].pc = "d_loc_mutate" /\ thr'[i] # thr[i]

\* C34: after Delete has removed a child from a node it keeps, a node256 left with
\* at most 48 children has become a node48, a node48 left with at most 16 a node16
\* and a node16 left with at most 4 a node4; otherwise the variant is kept.  Every
\* remaining byte yields the same child as before, the removed byte yields none, and
\* the keys of a node16 or node4 are in ascending order.
C34_ShrinkAfterRemoval ==
    [][\A i \in Threads : RemovesChild(i) =>
          With(heap[TopFrame(i).n].node, LAMBDA old :
          With(heap'[TopFrame(i).n].node, LAMBDA new :
          With(thr[i].key[TopFrame(i).nextDepth + 1], LAMBDA byte :
              /\ thr'[i].pc = "d_unlock"
              /\ new.lth = old.lth - 1
              /\ new.kind = IF old.kind # "node4" /\ new.lth <= Capacity(Smaller(old.kind))
                            THEN Smaller(old.kind) ELSE old.kind
              /\ ChildAt(new, byte) = Nil
              /\ \A b \in 0..255 : b # byte => ChildAt(new, b) = ChildAt(old, b)
              /\ KeysAscending(new))))]_vars

\* Thread 1 has removed 7.0 from the root that held the 49 keys 7.0 to 7.48 in a
\* node256: the root is a node48 of 48 children.
C34_Witness ==
    /\ thr[1].pc = "d_unlock"
    /\ thr[1].key = KLow
    /\ heap[root].node.kind = "node48"
    /\ heap[root].node.lth = 48

(***************************************************************************)
(* One key inserted and deleted in turn on a tree whose root is at the     *)
(* edge of a variant.                                                      *)
(***************************************************************************)
\* Calls of one run that inserts and deletes in turn.
MaxToggles == 4

\* Roots with as many children as a variant holds, one less and one more.
TogglePreloads == {Wide(n) : n \in {3, 4, 5, 15, 16, 17, 47, 48, 49}}

InitToggle == \E p \in TogglePreloads : InitOn(p)

\* Tree.Insert(KHigh, 2) when the key is absent; out[1] collects the variant of the
\* root before and after each call.
ToggleInsert ==
    /\ ~panicked
    /\ Loaded
    /\ nops < MaxToggles
    /\ ~ref[KHigh][2]
    /\ Return(Run(BeginInsert(World(1), KHigh, 2), RunFuel), 1, "insert", KHigh, 2)
    /\ ref' = [ref EXCEPT ![KHigh] = <<2, TRUE>>]
    /\ nops' = nops + 1
    /\ out' = [out EXCEPT ![1] = Append(@, <<heap[root].node.kind, heap'[root'].node.kind>>)]
    /\ UNCHANGED <<insOnly, roundTrip, load, todo, iter, begun>>

\* Tree.Delete(KHigh) when the key is present.
ToggleDelete ==
    /\ ~panicked
    /\ Loaded
    /\ nops < MaxToggles
    /\ ref[KHigh][2]
    /\ Return(Run(BeginDelete(World(1), KHigh), RunFuel), 1, "delete", KHigh, Nil)
    /\ ref' = [ref EXCEPT ![KHigh] = <<Nil, FALSE>>]
    /\ nops' = nops + 1
    /\ out' = [out EXCEPT ![1] = Append(@, <<heap[root].node.kind, heap'[root'].node.kind>>)]
    /\ UNCHANGED <<insOnly, roundTrip, load, todo, iter, begun>>

NextToggle ==
    \/ Load
    \/ ToggleInsert
    \/ ToggleDelete

SpecToggle == InitToggle /\ [][NextToggle]_vars

\* C35: when one key is inserted and deleted in turn, the root does not change its
\* variant in two calls that follow each other: a variant that has just grown
\* does not shrink when the key is deleted again.
C35_NoSwitchOnEveryCall ==
    Loaded => \A x \in 1..(Len(out[1]) - 1) :
                  ~(out[1][x][1] # out[1][x][2] /\ out[1][x + 1][1] # out[1][x + 1][2])

(***************************************************************************)
(* The variants by themselves: addChild, replace(idx, nil), grow and       *)
(* shrink called on one variant, as the tests of the nodes do.  heap holds *)
(* one inner node with the variant, ref the child each byte should yield   *)
(* (Nil for a byte that was never added or was removed), nops the calls.   *)
(***************************************************************************)
\* Calls on one variant.
MaxNodeOps == 4

\* The bytes added and removed: the ends of the range, and bytes inside the filled
\* part of every variant.
NodeBytes == {0, 1, 15, 47, 200, 255}

\* &node4{}, &node16{}, &node48{}, &node256{}
EmptyNode(kind) ==
    CASE kind = "node4" -> EmptyNode4
      [] kind = "node16" -> [kind |-> "node16", lth |-> 0, keys |-> Arr(16, 0), childs |-> Arr(16, Nil)]
      [] kind = "node48" -> [kind |-> "node48", lth |-> 0, keys |-> Arr(256, 0), childs |-> Arr(48, Nil)]
      [] kind = "node256" -> [kind |-> "node256", lth |-> 0, childs |-> Arr(256, Nil)]

\* The variants the calls start from, as a kind and the number of children expand
\* gives it first: none, one short of full, and full.
NodeFills ==
    {<<"node4", 0>>, <<"node4", 3>>, <<"node4", 4>>, <<"node16", 0>>, <<"node16", 15>>,
     <<"node16", 16>>, <<"node48", 0>>, <<"node48", 47>>, <<"node48", 48>>, <<"node256", 48>>,
     <<"node256", 49>>}

InitNode ==
    \E f \in NodeFills :
        /\ heap = <<NewInner(Arr(maxPrefixLen, 0), 0, EmptyNode(f[1]))>>
        /\ root = 1
        /\ lock = 0
        /\ thr = [i \in Threads |-> NewThread]
        /\ panicked = FALSE
        /\ ref = [b \in 0..255 |-> Nil]
        /\ nops = 0
        /\ insOnly = TRUE
        /\ roundTrip = TRUE
        /\ last = NoCall
        /\ load = SubSeq([i \in 1..f[2] |-> i - 1], 1, f[2])
        /\ todo = [i \in Threads |-> <<>>]
        /\ out = [i \in Threads |-> <<>>]
        /\ iter = NoIter
        /\ begun = NoneBegun

\* The variant under test.
TheNode == heap[1].node

\* A call on the variant has given v; a call that panics leaves the variant.
NodeCall(v) ==
    /\ heap' = IF v.kind = "panic" THEN heap ELSE [heap EXCEPT ![1].node = v]
    /\ panicked' = (v.kind = "panic")
    /\ UNCHANGED <<root, lock, thr, insOnly, roundTrip, last, todo, out, iter, begun>>

\* One turn of expand in TestNodeChilds: addChild of the next byte, with a child
\* of its own.
NodeExpand ==
    /\ ~panicked
    /\ load # <<>>
    /\ NodeCall(inodeAddChild(TheNode, Head(load), Head(load) + 1))
    /\ ref' = [ref EXCEPT ![Head(load)] = Head(load) + 1]
    /\ load' = Tail(load)
    /\ UNCHANGED nops

\* The calls that follow the expansion.
NodeOp ==
    /\ ~panicked
    /\ load = <<>>
    /\ nops < MaxNodeOps
    /\ nops' = nops + 1
    /\ UNCHANGED load

\* n.addChild(b, child) for a byte the variant does not hold, when it is not full.
NodeAddChild(b) ==
    /\ NodeOp
    /\ ref[b] = Nil
    /\ ~inodeFull(TheNode)
    /\ NodeCall(inodeAddChild(TheNode, b, 1000 + nops))
    /\ ref' = [ref EXCEPT ![b] = 1000 + nops]

\* i, _ := n.child(b); n.replace(i, nil) for a byte the variant holds.
NodeRemove(b) ==
    /\ NodeOp
    /\ ref[b] # Nil
    /\ NodeCall(inodeReplace(TheNode, inodeChild(TheNode, b)[1], Nil))
    /\ ref' = [ref EXCEPT ![b] = Nil]

\* n = n.grow() when the variant is full.
NodeGrow ==
    /\ NodeOp
    /\ inodeFull(TheNode)
    /\ TheNode.kind # "node256"
    /\ NodeCall(inodeGrow(TheNode))
    /\ UNCHANGED ref

\* n = n.shrink() when the smaller variant can hold the children.
NodeShrink ==
    /\ NodeOp
    /\ TheNode.kind # "node4"
    /\ TheNode.lth <= Capacity(Smaller(TheNode.kind))
    /\ NodeCall(inodeShrink(TheNode))
    /\ UNCHANGED ref

NextNode ==
    \/ NodeExpand
    \/ \E b \in NodeBytes : NodeAddChild(b)
    \/ \E b \in NodeBytes : NodeRemove(b)
    \/ NodeGrow
    \/ NodeShrink

SpecNode == InitNode /\ [][NextNode]_vars

\* The bytes the variant should hold.
Present == {b \in 0..255 : ref[b] # Nil}

\* C36: in a node48 every byte that was added and not removed leads through the
\* index of 256 entries to a child slot of its own that holds its child, every other
\* byte has index 0, and the count is the number of occupied slots; so an addChild
\* after a removal takes a free slot and overwrites no live child.
C36_Node48SlotsConsistent ==
    TheNode.kind = "node48" =>
        /\ ~panicked
        /\ \A b \in Present : /\ TheNode.keys[b + 1] \in 1..48
                               /\ TheNode.childs[TheNode.keys[b + 1]] = ref[b]
        /\ \A b, c \in Present : b # c => TheNode.keys[b + 1] # TheNode.keys[c + 1]
        /\ \A b \in (0..255) \ Present : TheNode.keys[b + 1] = 0
        /\ TheNode.lth = Cardinality({x \in 1..48 : TheNode.childs[x] # Nil})
        /\ TheNode.lth = Cardinality(Present)

\* A node48 that was full lost the child of byte 1 and then got a child for byte
\* 200, which took the slot of byte 1, the second.
C36_Witness ==
    /\ TheNode.kind = "node48"
    /\ TheNode.lth = 48
    /\ ref[1] = Nil
    /\ ref[200] # Nil
    /\ TheNode.keys[201] = 2

\* C37: in a node4 and a node16 the keys of the occupied part are strictly
\* ascending, each is paired with a child at the same index, and child(b) yields
\* the child of b for the bytes added and not removed, byte 0 among them, and none
\* for the others.
C37_SortedVariantsConsistent ==
    TheNode.kind \in {"node4", "node16"} =>
        /\ ~panicked
        /\ TheNode.lth = Cardinality(Present)
        /\ \A x \in 1..(TheNode.lth - 1) : TheNode.keys[x] < TheNode.keys[x + 1]
        /\ \A x \in 1..TheNode.lth : TheNode.childs[x] = ref[TheNode.keys[x]]
                                       /\ TheNode.childs[x] # Nil
        /\ \A b \in 0..255 : ChildAt(TheNode, b) = ref[b]

\* A node16 that lost the child of byte 0 and got it back, between two other calls:
\* byte 0 is found, and byte 1 after it.
C37_Witness ==
    /\ TheNode.kind = "node16"
    /\ nops = MaxNodeOps
    /\ ref[0] >= 1000
    /\ TheNode.keys[1] = 0
    /\ TheNode.keys[2] = 1
    /\ ChildAt(TheNode, 0) = ref[0]

(***************************************************************************)
(* leaf.insert by itself: a leaf at some depth takes a second leaf, as     *)
(* TestMaxPrefixRecursive does.  heap starts as the two leaves, nops is    *)
(* the depth, out[1] is empty until the call was made; then root is the    *)
(* node the call returned.                                                 *)
(***************************************************************************)
\* The longest run of bytes two keys share.
MaxCommon == 20

\* n bytes of 0.
Zeros(n) == Arr(n, 0)

\* Keys of n bytes 0, one byte 1 or 2, and no byte or one more after it.
LeafKeys == {Zeros(n) \o <<b>> \o t : n \in 0..MaxCommon, b \in {1, 2}, t \in {<<>>, <<3>>}}

\* The depths of the leaf.
LeafDepths == {0, 1}

\* The bytes k1 and k2 share from depth on, counted without a limit.
CommonLen(k1, k2, depth) ==
    Cardinality({n \in 1..((IF Len(k1) < Len(k2) THEN Len(k1) ELSE Len(k2)) - depth) :
                    \A m \in 1..n : k1[depth + m] = k2[depth + m]})

\* Two different keys, none a prefix of the other, that agree above the depth.
InitLeaf ==
    \E k1 \in LeafKeys, k2 \in LeafKeys, d \in LeafDepths :
        /\ CommonLen(k1, k2, 0) >= d
        /\ CommonLen(k1, k2, 0) < Len(k1)
        /\ CommonLen(k1, k2, 0) < Len(k2)
        /\ heap = <<NewLeaf(k1, 1), NewLeaf(k2, 2)>>
        /\ root = 1
        /\ lock = 0
        /\ thr = [i \in Threads |-> NewThread]
        /\ panicked = FALSE
        /\ ref = EmptyRef
        /\ nops = d
        /\ insOnly = TRUE
        /\ roundTrip = TRUE
        /\ last = NoCall
        /\ load = <<>>
        /\ todo = [i \in Threads |-> <<>>]
        /\ out = [i \in Threads |-> <<>>]
        /\ iter = NoIter
        /\ begun = NoneBegun

\* root, _ := l1.insert(l2, depth, nil, 0)
LeafExpand ==
    /\ out[1] = <<>>
    /\ With(leafInsert(heap, 1, 2, nops), LAMBDA r :
            /\ heap' = r.heap
            /\ root' = r.node
            /\ panicked' = r.panic)
    /\ out' = [out EXCEPT ![1] = <<"insert">>]
    /\ UNCHANGED <<lock, thr, ref, nops, insOnly, roundTrip, last, load, todo, iter, begun>>

NextLeaf == LeafExpand

SpecLeaf == InitLeaf /\ [][NextLeaf]_vars

\* The call was made.
Expanded == out[1] # <<>>

\* The bytes the two leaves share from the depth of the call on.
LeafCommon == CommonLen(heap[1].key, heap[2].key, nops)

\* The inner nodes from n down to the first one that has more than one child.
RECURSIVE ChainLinks(_, _)
ChainLinks(h, n) ==
    IF n = Nil THEN 0
    ELSE IF isLeaf(h, n) THEN 0
    ELSE IF h[n].node.lth = 1 THEN 1 + ChainLinks(h, h[n].node.childs[1])
    ELSE 1

\* The node n holds the two leaves, each under its byte after the common part.
HoldsBoth(h, n, at) ==
    /\ h[n].node.lth = 2
    /\ ChildAt(h[n].node, h[1].key[at + 1]) = 1
    /\ ChildAt(h[n].node, h[2].key[at + 1]) = 2

\* C38: a leaf that takes a second key becomes one inner node when the keys share
\* at most 7 bytes from the depth on, and a chain of two inner nodes, the first with
\* prefixLen 8 and one child, when they share exactly 8.
C38_ExpansionAtMaxPrefix ==
    Expanded =>
        /\ LeafCommon <= 7 =>
               /\ ~panicked
               /\ ChainLinks(heap, root) = 1
               /\ heap[root].prefixLen = LeafCommon
               /\ HoldsBoth(heap, root, nops + LeafCommon)
        /\ LeafCommon = 8 =>
               /\ ~panicked
               /\ ChainLinks(heap, root) = 2
               /\ heap[root].prefixLen = 8
               /\ heap[root].node.lth = 1

\* a / b rounded up.
CeilDiv(a, b) == (a + b - 1) \div b

\* C39: two keys that share len > 8 bytes from the depth on are expanded into a
\* chain of exactly ceil(len / 9) inner nodes.
C39_ChainLength ==
    (Expanded /\ LeafCommon > maxPrefixLen) =>
        /\ ~panicked
        /\ ChainLinks(heap, root) = CeilDiv(LeafCommon, maxPrefixLen + 1)

(***************************************************************************)
(* Prefixes at their limit: trees whose keys share long runs of bytes take *)
(* calls that split a prefix, expand a leaf into a chain, and collapse a   *)
(* node into a child that inherits its prefix, with and without a resplit. *)
(***************************************************************************)
\* Four bytes 1 and a branch: PX beside PY and PZ, which share five more bytes.
PX == <<1, 1, 1, 1, 9>>

PY == <<1, 1, 1, 1, 2, 3, 3, 3, 3, 3, 5>>

PZ == <<1, 1, 1, 1, 2, 3, 3, 3, 3, 3, 6>>

\* Leaves the prefix of PX, PY and PZ after two bytes.
PW == <<1, 1, 4>>

\* Seven bytes 5 and a branch: QX beside QY and QZ, which share nine more bytes.
QX == <<5, 5, 5, 5, 5, 5, 5, 9>>

QY == <<5, 5, 5, 5, 5, 5, 5, 2, 3, 3, 3, 3, 3, 3, 3, 3, 3, 5>>

QZ == <<5, 5, 5, 5, 5, 5, 5, 2, 3, 3, 3, 3, 3, 3, 3, 3, 3, 6>>

PrefixKeys == {PX, PY, PZ, PW, QX, QY, QZ, KA, KB}

PrefixPreloads ==
    {<<>>, <<PX, PY>>, <<PX, PY, PZ>>, <<PY, PZ, PX>>, <<QX, QY>>, <<QX, QY, QZ>>, <<KA, KB>>,
     <<PX, PY, PZ, QX>>}

InitPrefix ==
    \E p \in PrefixPreloads :
        /\ heap = EmptyWorld.heap
        /\ root = EmptyWorld.root
        /\ lock = EmptyWorld.lock
        /\ thr = [i \in Threads |-> NewThread]
        /\ panicked = FALSE
        /\ ref = [k \in PrefixKeys |-> <<Nil, FALSE>>]
        /\ nops = 0
        /\ insOnly = TRUE
        /\ roundTrip = TRUE
        /\ last = NoCall
        /\ load = p
        /\ todo = [i \in Threads |-> <<>>]
        /\ out = [i \in Threads |-> <<>>]
        /\ iter = NoIter
        /\ begun = [k \in PrefixKeys |-> <<{}, FALSE>>]

NextPrefix ==
    \/ Load
    \/ \E k \in PrefixKeys, v \in Values : Insert(k, v)
    \/ \E k \in PrefixKeys : Delete(k)

SpecPrefix == InitPrefix /\ [][NextPrefix]_vars

\* C40: every inner node has a prefixLen from 0 to 8, after a split of a prefix,
\* an expansion of a leaf, a collapse and an inherit.
C40_PrefixLenInBounds ==
    \A id \in 1..Len(heap) :
        heap[id].type = "inner" =>
            /\ heap[id].prefixLen >= 0
            /\ heap[id].prefixLen <= maxPrefixLen
            /\ Len(heap[id].prefix) = maxPrefixLen

\* QX was deleted beside QY and QZ: the root, with 7 bytes of prefix, collapsed
\* into its child of 8 bytes, and inherit split the 16 bytes into a node of 8 and
\* the child, left with 7.
C40_Witness ==
    /\ Loaded
    /\ ~panicked
    /\ last.op = "delete"
    /\ last.key = QX
    /\ root # Nil
    /\ ~isLeaf(heap, root)
    /\ heap[root].prefixLen = maxPrefixLen
    /\ heap[root].node.lth = 1
    /\ ~isLeaf(heap, heap[root].node.childs[1])
    /\ heap[heap[root].node.childs[1]].prefixLen = 7
    /\ Lookup(QY)[2]
    /\ Lookup(QZ)[2]

(***************************************************************************)
(* The optimistic lock by itself: the threads call the methods of one      *)
(* olock, the lock of the tree, with the versions RLock gave them.  A      *)
(* thread here is [pc, version, read, lver, holds, stale, waited]: version *)
(* is what its last RLock returned and read whether it has called RLock;   *)
(* lver is the version local to Lock; holds, stale and waited record that  *)
(* it holds the write lock, that the write lock was taken since its last   *)
(* RLock, and that the lock was held when it called RLock.                 *)
(***************************************************************************)
\* Calls of olock methods that return in one run.
MaxLockOps == 6

\* var lock olock, and threads that have called nothing
InitLock ==
    /\ heap = EmptyWorld.heap
    /\ root = EmptyWorld.root
    /\ lock = 0
    /\ thr = [i \in Threads |-> [pc |-> "idle", version |-> 0, read |-> FALSE, lver |-> 0,
                                 holds |-> FALSE, stale |-> FALSE, waited |-> FALSE]]
    /\ panicked = FALSE
    /\ ref = EmptyRef
    /\ nops = 0
    /\ insOnly = TRUE
    /\ roundTrip = TRUE
    /\ last = NoCall
    /\ load = <<>>
    /\ todo = [i \in Threads |-> <<>>]
    /\ out = [i \in Threads |-> <<>>]
    /\ iter = NoIter
    /\ begun = NoneBegun

\* The call op of thread i returns restart; version is the version it passed or got.
LockReturn(i, op, version, restart) ==
    /\ nops < MaxLockOps
    /\ nops' = nops + 1
    /\ last' = [op |-> op, thread |-> i, version |-> version, restart |-> restart]
    /\ UNCHANGED <<heap, root, panicked, ref, insOnly, roundTrip, load, todo, out, iter, begun>>

\* The write lock was taken: every version read before is behind it.
Stale(i, t) == [j \in Threads |-> IF j = i THEN [t EXCEPT !.stale = TRUE]
                                  ELSE [thr[j] EXCEPT !.stale = TRUE]]

\* olock.RLock: the call, and the return of waitUnlocked once the locked bit is clear
RLock(i) ==
    \/ /\ thr[i].pc = "idle" /\ ~thr[i].holds
       /\ nops < MaxLockOps
       /\ thr' = [thr EXCEPT ![i].pc = "rlock", ![i].waited = isLocked(lock)]
       /\ UNCHANGED <<heap, root, lock, panicked, ref, nops, insOnly, roundTrip, last, load,
                      todo, out, iter, begun>>
    \/ /\ thr[i].pc = "rlock"
       /\ ~isLocked(lock)
       /\ thr' = [thr EXCEPT ![i].pc = "idle", ![i].version = lock, ![i].read = TRUE,
                             ![i].stale = FALSE]
       /\ lock' = lock
       /\ LockReturn(i, "RLock", lock, isObsolete(lock))

\* olock.RUnlock(version, nil)
RUnlock(i) ==
    /\ thr[i].pc = "idle" /\ ~thr[i].holds /\ thr[i].read
    /\ UNCHANGED <<lock, thr>>
    /\ LockReturn(i, "RUnlock", thr[i].version, olockChanged(lock, thr[i].version))

\* olock.Check(version)
Check(i) ==
    /\ thr[i].pc = "idle" /\ ~thr[i].holds /\ thr[i].read
    /\ UNCHANGED <<lock, thr>>
    /\ LockReturn(i, "Check", thr[i].version, olockChanged(lock, thr[i].version))

\* olock.Upgrade(version, nil)
Upgrade(i) ==
    /\ thr[i].pc = "idle" /\ ~thr[i].holds /\ thr[i].read
    /\ With(olockUpgrade(lock, thr[i].version), LAMBDA r :
            /\ lock' = r.val
            /\ thr' = IF r.restart THEN thr ELSE Stale(i, [thr[i] EXCEPT !.holds = TRUE])
            /\ LockReturn(i, "Upgrade", thr[i].version, r.restart))

\* olock.Lock: the call, the RLock of its loop, and the Upgrade of its loop
Lock(i) ==
    \/ /\ thr[i].pc = "idle" /\ ~thr[i].holds
       /\ nops < MaxLockOps
       /\ thr' = [thr EXCEPT ![i].pc = "lock_rlock"]
       /\ UNCHANGED <<heap, root, lock, panicked, ref, nops, insOnly, roundTrip, last, load,
                      todo, out, iter, begun>>
    \/ /\ thr[i].pc = "lock_rlock"
       /\ ~isLocked(lock)
       /\ thr' = [thr EXCEPT ![i].lver = lock,
                             ![i].pc = IF isObsolete(lock) THEN "lock_rlock" ELSE "lock_upgrade"]
       /\ UNCHANGED <<heap, root, lock, panicked, ref, nops, insOnly, roundTrip, last, load,
                      todo, out, iter, begun>>
    \/ /\ thr[i].pc = "lock_upgrade"
       /\ With(olockUpgrade(lock, thr[i].lver), LAMBDA r :
               /\ lock' = r.val
               /\ IF r.restart
                  THEN /\ thr' = [thr EXCEPT ![i].pc = "lock_rlock"]
                       /\ UNCHANGED <<heap, root, panicked, ref, nops, insOnly, roundTrip, last,
                                      load, todo, out, iter, begun>>
                  ELSE /\ thr' = Stale(i, [thr[i] EXCEPT !.pc = "idle", !.holds = TRUE])
                       /\ LockReturn(i, "Lock", thr[i].lver, FALSE))

\* olock.Unlock, by the thread that holds the write lock
Unlock(i) ==
    /\ thr[i].pc = "idle" /\ thr[i].holds
    /\ lock' = olockUnlock(lock)
    /\ thr' = [thr EXCEPT ![i].holds = FALSE]
    /\ LockReturn(i, "Unlock", lock, FALSE)

\* olock.UnlockObsolete, by the thread that holds the write lock
UnlockObsolete(i) ==
    /\ thr[i].pc = "idle" /\ thr[i].holds
    /\ lock' = olockUnlockObsolete(lock)
    /\ thr' = [thr EXCEPT ![i].holds = FALSE]
    /\ LockReturn(i, "UnlockObsolete", lock, FALSE)

NextLock ==
    \E i \in Threads :
        \/ RLock(i)
        \/ RUnlock(i)
        \/ Check(i)
        \/ Upgrade(i)
        \/ Lock(i)
        \/ Unlock(i)
        \/ UnlockObsolete(i)

SpecLock == InitLock /\ [][NextLock]_vars

\* The threads that hold the write lock.
Holders == {i \in Threads : thr[i].holds}

\* C14: Upgrade(v) succeeds only when the lock's value is v, a value with the locked
\* bit clear, and then sets it to v+2; no two threads hold the write lock at once, and
\* an Upgrade with a version read before another thread took the lock fails.
C14_UpgradeIsExclusive ==
    [][/\ Cardinality(Holders') <= 1
       /\ ((Called("Upgrade") \/ Called("Lock")) /\ ~last'.restart)
          => /\ lock = last'.version
             /\ ~isLocked(last'.version)
             /\ lock' = last'.version + 2
             /\ Holders = {}
             /\ Holders' = {last'.thread}
       /\ (Called("Upgrade") /\ ~last'.restart) => ~thr[last'.thread].stale]_vars

\* Both threads read version 0; thread 1 upgraded and the Upgrade of thread 2 failed.
C14_Witness ==
    /\ last.op = "Upgrade" /\ last.thread = 2 /\ last.restart /\ last.version = 0
    /\ thr[1].holds /\ thr[1].version = 0 /\ thr[1].read
    /\ lock = 2

\* C15: RLock returns the lock's value at a moment when no thread holds the write
\* lock, so the value has the locked bit clear; a reader that called RLock while the
\* lock was held returns after the holder's unlock, with the value the unlock left.
C15_RLockReturnsUnlockedVersion ==
    [][Called("RLock")
        => /\ ~isLocked(last'.version)
           /\ (last'.version \div 2) % 2 = 0
           /\ last'.version = lock
           /\ last'.restart = isObsolete(lock)
           /\ Holders = {}]_vars

\* Thread 1 locked from zero, thread 2 called RLock, thread 1 unlocked, and only then
\* RLock returned, with 4.
C15_Witness ==
    /\ nops = 3
    /\ last.op = "RLock" /\ last.thread = 2 /\ last.version = 4 /\ ~last.restart
    /\ thr[2].waited /\ thr[2].version = 4

\* C16: the lock's value never decreases, RUnlock(v) and Check(v) return true exactly
\* when the value is not v, and they return true whenever the write lock was taken
\* after v was read, also once it is released again.
C16_VersionInvalidatedForever ==
    [][/\ lock' >= lock
       /\ (Called("RUnlock") \/ Called("Check"))
          => /\ last'.restart = (lock # last'.version)
             /\ thr[last'.thread].stale => last'.restart]_vars

\* Thread 1 read version 0, thread 2 locked and unlocked, and RUnlock(0) and then
\* Check(0) of thread 1 returned true.
C16_Witness ==
    /\ nops = 5
    /\ last.op = "Check" /\ last.thread = 1 /\ last.version = 0 /\ last.restart
    /\ thr[1].stale
    /\ lock = 4
    /\ Holders = {}

\* C17: once UnlockObsolete has set the obsolete bit, no Upgrade with a version that
\* RLock returned and no Lock takes the write lock, the bit stays set, and every RLock
\* reports obsolete.
C17_ObsoleteIsTerminal ==
    [][isObsolete(lock)
        => /\ ~((Called("Upgrade") \/ Called("Lock")) /\ ~last'.restart)
           /\ Holders' \subseteq Holders
           /\ isObsolete(lock')
           /\ Called("RLock") => last'.restart]_vars

\* C18: by the holder, on a value with the locked bit set and the obsolete bit clear,
\* Unlock adds 2 and UnlockObsolete adds 3, which clears the locked bit and leaves the
\* obsolete bit clear or set; from zero, Lock gives 2, then Unlock 4 or UnlockObsolete 5.
C18_UnlockAddsTwoObsoleteAddsThree ==
    [][/\ (Called("Unlock") /\ ~isObsolete(lock))
          => /\ isLocked(lock)
             /\ lock' = lock + 2
             /\ ~isLocked(lock') /\ ~isObsolete(lock')
       /\ (Called("UnlockObsolete") /\ ~isObsolete(lock))
          => /\ isLocked(lock)
             /\ lock' = lock + 3
             /\ ~isLocked(lock') /\ isObsolete(lock')
       /\ (Called("Lock") /\ lock = 0) => lock' = 2
       /\ (Called("Unlock") /\ nops = 1) => lock' = 4
       /\ (Called("UnlockObsolete") /\ nops = 1) => lock' = 5]_vars

\* From zero: Lock and Unlock left 4, then Lock and UnlockObsolete left 9.
C18_Witness ==
    /\ nops = 4
    /\ last.op = "UnlockObsolete"
    /\ lock = 9
    /\ Holders = {}

====
